---- MODULE Spec2Model ----
(***************************************************************************)
(* Model of the agentic control loop of agent/app/core/agent.py: one run   *)
(* of Agent.run for one prompt.  The event stream, the LLM call counter,   *)
(* the webhook notifications and the calls that reach the action executor  *)
(* are state; the LLM replies, the read outcomes and the tool outcomes are  *)
(* inputs chosen with \E.                                                   *)
(*                                                                         *)
(* Modelling notes.                                                        *)
(*  - `action.action.value` is taken to be the action kind's string, as    *)
(*    the tests of the repository expect (tests/test_agent_core.py).       *)
(*  - ActionExecutor.execute_action and WebhookService.send_action catch   *)
(*    every Exception themselves (core/actions.py:51,                      *)
(*    services/webhook_service.py:61), so they return a boolean and the    *)
(*    handler at agent.py:244 does not fire in Spec.  WebhookFaultSpec     *)
(*    adds the run in which the webhook client raises all the same.        *)
(*                                                                         *)
(* Three more specifications share the module.  WebhookSpec is one call of *)
(* WebhookService._send_webhook_with_retry; ExecutorSpec is one call of    *)
(* ActionExecutor.execute_action for every action of a bounded input set;  *)
(* in each of them the other components stay as constructed.               *)
(***************************************************************************)
EXTENDS Integers, Sequences, FiniteSets, TLC

\* ---------------------------------------------------------------- bounds
MaxIterBound == 5

MaxPathLen == 4
MaxSessions == 2
MaxEntries == 2
MaxCalls == 2
MaxUpdates == 3

\* ------------------------------------------------------------- constants
DuplicateReadLimit == 3
RetryAttempts == 3
RetryDelay == 1
SafetyLimit == 1000
NoContent == "<absent>"
NoErrorType == "<absent>"
NoResult == "<none>"
P1 == "components/ui/button.tsx"
P2 == "components/Button.tsx"

ActionTypes == {"readFile", "editFile", "createFile", "deleteFile",
                "createDirectory", "removeDirectory", "search"}

Act(kind, path, content) == [action |-> kind, file_path |-> path, content |-> content]

ReadP1 == Act("readFile", P1, NoContent)
ReadP2 == Act("readFile", P2, NoContent)
CreateP2 == Act("createFile", P2, "<jsx>")
EditP1 == Act("editFile", P1, "y")
CreateNoContent == Act("createFile", P1, NoContent)
DeleteP1 == Act("deleteFile", P1, NoContent)

\* The action lists an LLM reply can carry (after parse_agent_response has
\* dropped the entries that do not construct an Action).
Batches == { <<>>,
             <<ReadP1>>,
             <<ReadP1, ReadP1>>,
             <<ReadP1, ReadP1, ReadP1>>,
             <<ReadP1, ReadP2>>,
             <<CreateP2, ReadP1>>,
             <<CreateP2>>,
             <<CreateP2, EditP1>>,
             <<CreateNoContent, DeleteP1>> }

\* ----------------------------------------------------------------- state
VARIABLES
    pc,               \* position of the generator Agent.run
    max_iterations,   \* Agent.max_iterations
    iteration_count,  \* local of _run_agentic_workflow
    read_files,       \* local of _run_agentic_workflow
    gathered_context, \* local of _run_agentic_workflow: path -> "content" | "Error"
    execution_log,    \* local of _run_agentic_workflow
    current_context,  \* local of _run_agentic_workflow: the sections appended so far
    total_actions,    \* Agent.total_actions
    events,           \* the updates yielded by Agent.run, in order
    llm_calls,        \* number of calls of llm_service.generate_completion
    pending_reads,    \* read_actions still to be visited by _execute_read_actions
    batch,            \* the list handed to _execute_actions
    batch_idx,        \* index of the next action of batch
    batch_start,      \* Len(events) when _execute_actions was entered
    attempted,        \* actions handed to ActionExecutor.execute_action, in order
    action_hooks,     \* payloads of webhook send_action
    completion_hooks, \* payloads of webhook send_completion
    entered,          \* number of times the loop body was entered
    forced_at,        \* iteration at which _should_force_execution first returned True (0: never)
    all_thinking,     \* every LLM reply so far parsed with thinking = True
    only_p1,          \* every LLM reply so far asked only for reads of P1
    dup_total,        \* duplicate read requests summed over the replies so far (counted up to the limit)
    max_dups,         \* largest number of duplicate read requests in one reply
    reply_dups,       \* duplicate read requests counted for the reply of this iteration
    scenario,         \* progress of the end-to-end scenario of the spec
    \* one call of WebhookService._send_webhook_with_retry
    wh_pc,            \* position inside _send_webhook_with_retry
    session,          \* WebhookService.session: "none", "open" or "closed"
    attempt,          \* the loop variable of _send_webhook_with_retry
    sends,            \* what each POST sent so far met, in order
    delays,           \* the arguments of asyncio.sleep so far, in order
    wh_result,        \* what _send_webhook_with_retry gave back to its caller
    \* one call of ActionExecutor.execute_action
    ex_pc,            \* position inside execute_action
    ex_action,        \* the action handed to execute_action
    ex_tool,          \* how the tool of the registry behaves when called
    tool_calls,       \* the argument lists of tool.execute so far, in order
    ex_normalized,    \* normalized_action of execute_action
    ex_result,        \* what execute_action gave back to its caller
    \* sessions of the webhook client
    acquired,         \* number of aiohttp.ClientSession objects created so far
    \* one call of LLMService.parse_agent_response
    ps_pc,            \* position inside parse_agent_response
    reply,            \* the reply handed to parse_agent_response
    parsed,           \* what parse_agent_response gave back (or that it raised)
    \* the calls of LLMService.generate_completion made by one run
    llm_pc,           \* position of the run between its calls
    requests,         \* per call: the context, the prompt and the model's input
    \* one request to the endpoint chat_simple
    ch_pc,            \* position inside chat_simple
    updates,          \* number of updates collected in the list `updates`
    \* one request to the endpoint chat_stream
    st_pc,            \* position inside generate_stream
    frames,           \* the frames sent to the client so far, in order
    \* DockerService
    containers,       \* DockerService.containers: project -> container info
    daemon,           \* the containers the Docker daemon has, by name
    callers           \* the calls of DockerService methods under way

agentVars == <<pc, max_iterations, iteration_count, read_files, gathered_context,
          execution_log, current_context, total_actions, events, llm_calls,
          pending_reads, batch, batch_idx, batch_start, attempted,
          action_hooks, completion_hooks, entered, forced_at, all_thinking,
          only_p1, dup_total, max_dups, reply_dups, scenario>>

webhookVars == <<wh_pc, session, acquired, attempt, sends, delays, wh_result>>

executorVars == <<ex_pc, ex_action, ex_tool, tool_calls, ex_normalized, ex_result>>

parserVars == <<ps_pc, reply, parsed, llm_pc, requests>>

chatVars == <<ch_pc, updates, st_pc, frames>>

dockerVars == <<containers, daemon, callers>>

\* Everything outside the agent and its webhook client.
otherServiceVars == <<executorVars, parserVars, chatVars, dockerVars>>

\* Everything outside the agent.
serviceVars == <<webhookVars, otherServiceVars>>

vars == <<agentVars, serviceVars>>

\* --------------------------------------------------------------- helpers
Event(type, path, message, status, etype) ==
    [type |-> type, file_path |-> path, message |-> message,
     status |-> status, error_type |-> etype]

RECURSIVE SelectSeqBy(_, _)
\* Variant of the filter of _execute_read_actions that keeps every action.
ReadActionsOf_All(actions) == actions

\* read_actions = [a for a in actions if a.action.value == "readFile"]
ReadActionsOf(actions) == SelectSeq(actions, LAMBDA a : a.action = "readFile")

SelectSeqBy(s, S) ==
    IF s = <<>> THEN <<>>
    ELSE IF Head(s).file_path \in S
         THEN <<Head(s)>> \o SelectSeqBy(Tail(s), S)
         ELSE SelectSeqBy(Tail(s), S)

\* _should_force_execution: duplicate_reads
DuplicateReads(actions, rf) == SelectSeqBy(ReadActionsOf(actions), rf)

ForceThreshold(m) == (m * 8) \div 10
WarnThreshold(m) == (m * 6) \div 10

\* Variants of _should_force_execution: the threshold rounded up; the
\* duplicate reads not looked at; the duplicate count compared with `>`.
ShouldForceExecution_Ceil(actions, rf, it, m) ==
    \/ Len(DuplicateReads(actions, rf)) >= DuplicateReadLimit
    \/ it >= (m * 8 + 9) \div 10

ShouldForceExecution_IterationOnly(actions, rf, it, m) ==
    it >= ForceThreshold(m)

ShouldForceExecution_Strict(actions, rf, it, m) ==
    \/ Len(DuplicateReads(actions, rf)) > DuplicateReadLimit
    \/ it >= ForceThreshold(m)

ShouldForceExecution(actions, rf, it, m) ==
    \/ Len(DuplicateReads(actions, rf)) >= DuplicateReadLimit
    \/ it >= ForceThreshold(m)

\* Variant of _map_action_to_update_type: createFile reported as an edit.
MapActionToUpdateType_CreateAsEdit(a) ==
    CASE a = "readFile" -> "read"
      [] a = "createFile" -> "edit"
      [] a = "editFile" -> "edit"
      [] a = "deleteFile" -> "delete"
      [] a = "createDirectory" -> "create"
      [] a = "removeDirectory" -> "delete"
      [] a = "search" -> "read"
      [] OTHER -> "unknown"

MapActionToUpdateType(a) ==
    CASE a = "readFile" -> "read"
      [] a = "createFile" -> "create"
      [] a = "editFile" -> "edit"
      [] a = "deleteFile" -> "delete"
      [] a = "createDirectory" -> "create"
      [] a = "removeDirectory" -> "delete"
      [] a = "search" -> "read"
      [] OTHER -> "unknown"

\* ActionExecutor.execute_action with the tool's reported success as input.
ExecuteAction(a, tool_ok) ==
    IF a.action \notin ActionTypes THEN FALSE
    ELSE IF a.action \in {"editFile", "createFile"}
            /\ a.content \in {NoContent, ""} THEN FALSE
    ELSE tool_ok

\* An exception as classify_error sees it.
AgentError(type) == [agent_error |-> TRUE, type |-> type, words |-> {}]

\* Variant of classify_error without its isinstance(error, AgentError) branch.
ClassifyError_ByMessageOnly(e) ==
    IF e.words \cap {"timeout", "timed out"} # {} THEN "timeout"
    ELSE IF e.words \cap {"parse", "json"} # {} THEN "parsing"
    ELSE "unknown"

ClassifyError(e) ==
    IF e.agent_error THEN e.type
    ELSE IF e.words \cap {"timeout", "timed out"} # {} THEN "timeout"
    ELSE IF e.words \cap {"parse", "json"} # {} THEN "parsing"
    ELSE "unknown"

\* _update_context_with_tracking
UpdateContextWithTracking(ctx, rf, it, m) ==
    ctx \o (IF rf # {} THEN <<"already_read">> ELSE <<>>)
        \o (IF it >= WarnThreshold(m) THEN <<"warning">> ELSE <<>>)

\* _update_context
UpdateContext(ctx, gc, log) ==
    ctx \o (IF DOMAIN gc # {} THEN <<"file_contents">> ELSE <<>>)
        \o (IF log # <<>> THEN <<"execution_log">> ELSE <<>>)

Max2(a, b) == IF a >= b THEN a ELSE b

\* ------------------------------------------------------------------ Init
\* The agent before Agent.run is called.
AgentIdle ==
    /\ pc = "start"
    /\ iteration_count = 0
    /\ read_files = {}
    /\ gathered_context = [p \in {} |-> ""]
    /\ execution_log = <<>>
    /\ current_context = <<>>
    /\ total_actions = 0
    /\ events = <<>>
    /\ llm_calls = 0
    /\ pending_reads = <<>>
    /\ batch = <<>>
    /\ batch_idx = 0
    /\ batch_start = 0
    /\ attempted = <<>>
    /\ action_hooks = <<>>
    /\ completion_hooks = <<>>
    /\ entered = 0
    /\ forced_at = 0
    /\ all_thinking = TRUE
    /\ only_p1 = TRUE
    /\ dup_total = 0
    /\ max_dups = 0
    /\ reply_dups = 0
    /\ scenario = "s0"

\* WebhookService after __init__, no notification under way.
WebhookIdle ==
    /\ wh_pc = "idle"
    /\ session = "none"
    /\ attempt = 0
    /\ sends = <<>>
    /\ delays = <<>>
    /\ wh_result = NoResult
    /\ acquired = 0

\* ActionExecutor after __init__, no action under way.
ExecutorIdle ==
    /\ ex_pc = "idle"
    /\ ex_action = Act("readFile", <<>>, NoContent)
    /\ ex_tool = "success_true"
    /\ tool_calls = <<>>
    /\ ex_normalized = Act("readFile", <<>>, NoContent)
    /\ ex_result = NoResult

\* LLMService, no reply under way.
ParserIdle ==
    /\ ps_pc = "idle"
    /\ reply = NoResult
    /\ parsed = NoResult
    /\ llm_pc = "idle"
    /\ requests = <<>>

\* The endpoint chat_simple, no request under way.
ChatIdle ==
    /\ ch_pc = "idle"
    /\ updates = 0
    /\ st_pc = "idle"
    /\ frames = <<>>

\* DockerService after __init__.
\* The projects, the host ports _get_random_port draws from, and the calls
\* of DockerService methods that may be under way at once.
Projects == {1, 2}
Ports == {3000, 3001}
Calls == {"call1", "call2"}

\* What the Docker daemon knows under a container name.
AbsentContainer == [status |-> "absent", port |-> 0]

\* A call slot no method runs in. `overlap` records that a start_preview
\* call ran while another one for the same project was under way; `found`
\* records, for a request of the preview routes, the status the daemon had
\* under the name of the project when the request was served.
NoCall ==
    [op |-> "none", project |-> 0, pc |-> "idle", result |-> NoResult,
     url |-> 0, tracked |-> FALSE, outcome |-> NoResult, overlap |-> FALSE, found |-> NoResult]

\* DockerService.__init__: nothing tracked, no call under way.
DockerIdle ==
    /\ containers = <<>>
    /\ daemon = [p \in Projects |-> AbsentContainer]
    /\ callers = [c \in Calls |-> NoCall]

\* The components an agent run does not touch.
OthersIdle ==
    /\ ExecutorIdle
    /\ ParserIdle
    /\ ChatIdle
    /\ DockerIdle

Init ==
    /\ max_iterations \in 1..MaxIterBound
    /\ AgentIdle
    /\ WebhookIdle
    /\ OthersIdle

\* --------------------------------------------------------------- actions
Emit(evs) == events' = events \o evs

\* Variant of the notification that leaves the client session open.
NotifyWebhook_LeavesOpen ==
    /\ session' = "open"
    /\ acquired' = acquired + 1
    /\ UNCHANGED <<wh_pc, attempt, sends, delays, wh_result>>
    /\ UNCHANGED otherServiceVars

\* `async with self.webhook_service as webhook: await webhook.send_...`:
\* __aenter__ creates a client session, the notification is sent, __aexit__
\* closes the session; no update is yielded in between.
NotifyWebhook ==
    /\ session' = "closed"
    /\ acquired' = acquired + 1
    /\ UNCHANGED <<wh_pc, attempt, sends, delays, wh_result>>
    /\ UNCHANGED otherServiceVars

\* Agent.run, up to the first suspension inside _run_agentic_workflow.
RunStart ==
    /\ pc = "start"
    /\ Emit(<<Event("thinking", "", "analyzing", "pending", NoErrorType)>>)
    /\ current_context' = <<"project_context">>
    /\ pc' = "loop"
    /\ UNCHANGED serviceVars
    /\ UNCHANGED <<max_iterations, iteration_count, read_files, gathered_context,
                   execution_log, total_actions, llm_calls, pending_reads, batch,
                   batch_idx, batch_start, attempted, action_hooks,
                   completion_hooks, entered, forced_at, all_thinking, only_p1,
                   dup_total, max_dups, reply_dups, scenario>>

\* The loop test of _run_agentic_workflow (`<=` in place of `<` in the variant).
LoopGuard_OffByOne(it, m) == it <= m

LoopGuard(it, m) == it < m

LoopEnter ==
    /\ pc = "loop"
    /\ LoopGuard(iteration_count, max_iterations)
    /\ iteration_count' = iteration_count + 1
    /\ entered' = entered + 1
    /\ Emit(<<Event("thinking", "", "thinking", "pending", NoErrorType)>>)
    /\ current_context' = UpdateContextWithTracking(current_context, read_files,
                                                    iteration_count', max_iterations)
    /\ pc' = "llm"
    /\ reply_dups' = 0
    /\ UNCHANGED serviceVars
    /\ UNCHANGED <<max_iterations, read_files, gathered_context, execution_log,
                   total_actions, llm_calls, pending_reads, batch, batch_idx,
                   batch_start, attempted, action_hooks, completion_hooks,
                   forced_at, all_thinking, only_p1, dup_total, max_dups, scenario>>

\* Variant of the loop's exit in which the workflow returns without raising.
MaxIterationsReached_Silent ==
    /\ pc = "loop"
    /\ ~LoopGuard(iteration_count, max_iterations)
    /\ pc' = "done"
    /\ UNCHANGED serviceVars
    /\ UNCHANGED <<max_iterations, iteration_count, read_files, gathered_context,
                   execution_log, current_context, total_actions, events, llm_calls,
                   pending_reads, batch, batch_idx, batch_start, attempted,
                   action_hooks, completion_hooks, entered, forced_at,
                   all_thinking, only_p1, dup_total, max_dups, reply_dups, scenario>>

\* The loop test fails: AgentError(PROCESSING) is raised and Agent.run turns
\* it into the final error update.
MaxIterationsReached ==
    /\ pc = "loop"
    /\ ~LoopGuard(iteration_count, max_iterations)
    /\ Emit(<<Event("error", "", "processing_message", "error",
                    ClassifyError(AgentError("processing")))>>)
    /\ pc' = "done"
    /\ UNCHANGED serviceVars
    /\ UNCHANGED <<max_iterations, iteration_count, read_files, gathered_context,
                   execution_log, current_context, total_actions, llm_calls,
                   pending_reads, batch, batch_idx, batch_start, attempted,
                   action_hooks, completion_hooks, entered, forced_at,
                   all_thinking, only_p1, dup_total, max_dups, reply_dups, scenario>>

\* Variant of the iteration's handler that lets the exception end the run:
\* Agent.run reports it and stops.
IterationFails_EndsRun ==
    /\ llm_calls' = llm_calls + 1
    /\ current_context' = current_context \o <<"error">>
    /\ Emit(<<Event("error", "", "exception", "error", "unknown")>>)
    /\ pc' = "done"
    /\ all_thinking' = FALSE
    /\ only_p1' = FALSE
    /\ scenario' = "off"
    /\ UNCHANGED serviceVars
    /\ UNCHANGED <<max_iterations, iteration_count, read_files, gathered_context,
                   execution_log, total_actions, pending_reads, batch,
                   batch_idx, batch_start, attempted, action_hooks,
                   completion_hooks, entered, forced_at, dup_total, max_dups, reply_dups>>

\* The handler of the iteration: the error goes into the context and the
\* loop goes on.
IterationFails ==
    /\ llm_calls' = llm_calls + 1
    /\ current_context' = current_context \o <<"error">>
    /\ pc' = "loop"
    /\ all_thinking' = FALSE
    /\ only_p1' = FALSE
    /\ scenario' = "off"
    /\ UNCHANGED serviceVars
    /\ UNCHANGED <<max_iterations, iteration_count, read_files, gathered_context,
                   execution_log, total_actions, events, pending_reads, batch,
                   batch_idx, batch_start, attempted, action_hooks,
                   completion_hooks, entered, forced_at, dup_total, max_dups, reply_dups>>

\* llm_service.generate_completion raises.
GenerateCompletionRaises ==
    /\ pc = "llm"
    /\ IterationFails

\* llm_service.parse_agent_response raises: the reply is not JSON.
ParseAgentResponseRaises ==
    /\ pc = "llm"
    /\ IterationFails

\* _execute_actions is entered with the list b.
StartBatch(b) ==
    /\ batch' = b
    /\ batch_idx' = 1
    /\ batch_start' = Len(events')
    /\ pc' = "exec"

\* The reply parses with thinking = False.
ReplyExecute ==
    /\ pc = "llm"
    /\ \E b \in Batches :
        /\ llm_calls' = llm_calls + 1
        /\ Emit(<<Event("thinking", "", "ready", "completed", NoErrorType)>>)
        /\ StartBatch(b)
        /\ all_thinking' = FALSE
        /\ only_p1' = FALSE
        /\ scenario' = IF scenario = "s1" /\ b = <<CreateP2>> THEN "s2" ELSE "off"
    /\ UNCHANGED serviceVars
    /\ UNCHANGED <<max_iterations, iteration_count, read_files, gathered_context,
                   execution_log, current_context, total_actions, pending_reads,
                   attempted, action_hooks, completion_hooks, entered, forced_at,
                   dup_total, max_dups, reply_dups>>

\* The reply parses with thinking = True.
ReplyThinking ==
    /\ pc = "llm"
    /\ \E b \in Batches :
        LET dups == Len(DuplicateReads(b, read_files))
            force == ShouldForceExecution(b, read_files, iteration_count, max_iterations)
            reads == ReadActionsOf(b)
        IN  /\ llm_calls' = llm_calls + 1
            /\ dup_total' = IF dup_total + dups > DuplicateReadLimit
                            THEN DuplicateReadLimit ELSE dup_total + dups
            /\ max_dups' = Max2(max_dups, dups)
            /\ reply_dups' = dups
            /\ only_p1' = (only_p1 /\ b \in {<<ReadP1>>, <<ReadP1, ReadP1>>,
                                               <<ReadP1, ReadP1, ReadP1>>})
            /\ scenario' = IF scenario = "s0" /\ b = <<ReadP1>> THEN "s1" ELSE "off"
            /\ IF force
               THEN /\ Emit(<<Event("thinking", "", "forcing", "pending", NoErrorType)>>)
                    /\ forced_at' = IF forced_at = 0 THEN iteration_count ELSE forced_at
                    /\ pc' = "force"
                    /\ UNCHANGED <<pending_reads, current_context>>
               ELSE /\ UNCHANGED <<events, forced_at>>
                    /\ pending_reads' = reads
                    /\ IF reads = <<>>
                       THEN /\ current_context' = UpdateContext(current_context,
                                                     gathered_context, execution_log)
                            /\ pc' = "loop"
                       ELSE /\ UNCHANGED current_context
                            /\ pc' = "read"
    /\ UNCHANGED serviceVars
    /\ UNCHANGED <<max_iterations, iteration_count, read_files, gathered_context,
                   execution_log, total_actions, batch, batch_idx, batch_start,
                   attempted, action_hooks, completion_hooks, entered, all_thinking>>

\* _execute_read_actions leaves its loop after the last read action.
AfterRead(rest, gc, log) ==
    /\ pending_reads' = rest
    /\ IF rest = <<>>
       THEN /\ current_context' = UpdateContext(current_context, gc, log)
            /\ pc' = "loop"
       ELSE /\ UNCHANGED current_context
            /\ pc' = "read"

\* Variant of the skip that announces the read again.
SkipAlreadyRead_Announces ==
    /\ pc = "read"
    /\ pending_reads # <<>>
    /\ Head(pending_reads).file_path \in read_files
    /\ Emit(<<Event("read", Head(pending_reads).file_path, "action", "pending",
                    NoErrorType)>>)
    /\ AfterRead(Tail(pending_reads), gathered_context, execution_log)
    /\ UNCHANGED serviceVars
    /\ UNCHANGED <<max_iterations, iteration_count, read_files, gathered_context,
                   execution_log, total_actions, llm_calls, batch,
                   batch_idx, batch_start, attempted, action_hooks,
                   completion_hooks, entered, forced_at, all_thinking, only_p1,
                   dup_total, max_dups, reply_dups, scenario>>

\* _execute_read_actions: the path is already in read_files.
SkipAlreadyRead ==
    /\ pc = "read"
    /\ pending_reads # <<>>
    /\ Head(pending_reads).file_path \in read_files
    /\ AfterRead(Tail(pending_reads), gathered_context, execution_log)
    /\ UNCHANGED serviceVars
    /\ UNCHANGED <<max_iterations, iteration_count, read_files, gathered_context,
                   execution_log, total_actions, events, llm_calls, batch,
                   batch_idx, batch_start, attempted, action_hooks,
                   completion_hooks, entered, forced_at, all_thinking, only_p1,
                   dup_total, max_dups, reply_dups, scenario>>

\* Variant of the announcement of a read that forgets the paths read before.
ReadPending_Forgets ==
    /\ pc = "read"
    /\ pending_reads # <<>>
    /\ LET p == Head(pending_reads).file_path
       IN  /\ p \notin read_files
           /\ read_files' = {p}
           /\ execution_log' = Append(execution_log, <<"Read", p>>)
           /\ Emit(<<Event("read", p, "action", "pending", NoErrorType)>>)
    /\ pc' = "read_run"
    /\ UNCHANGED serviceVars
    /\ UNCHANGED <<max_iterations, iteration_count, gathered_context, current_context,
                   total_actions, llm_calls, pending_reads, batch,
                   batch_idx, batch_start, attempted, action_hooks,
                   completion_hooks, entered, forced_at, all_thinking, only_p1,
                   dup_total, max_dups, reply_dups, scenario>>

\* _execute_read_actions: a new path is recorded and announced; the
\* generator is suspended at the pending update.
ReadPending ==
    /\ pc = "read"
    /\ pending_reads # <<>>
    /\ LET p == Head(pending_reads).file_path
       IN  /\ p \notin read_files
           /\ read_files' = read_files \cup {p}
           /\ execution_log' = Append(execution_log, <<"Read", p>>)
           /\ Emit(<<Event("read", p, "action", "pending", NoErrorType)>>)
    /\ pc' = "read_run"
    /\ UNCHANGED serviceVars
    /\ UNCHANGED <<max_iterations, iteration_count, gathered_context, current_context,
                   total_actions, llm_calls, pending_reads, batch,
                   batch_idx, batch_start, attempted, action_hooks,
                   completion_hooks, entered, forced_at, all_thinking, only_p1,
                   dup_total, max_dups, reply_dups, scenario>>

\* Variant of the read's result update that reports a failed read without
\* the path of the file.
ReadResultEvent_ErrorWithoutPath(p, ok) ==
    IF ok THEN Event("read", p, "read_ok", "completed", NoErrorType)
    ELSE Event("error", "", "read_error", "error", NoErrorType)

\* The update that follows the read of p.
ReadResultEvent(p, ok) ==
    IF ok THEN Event("read", p, "read_ok", "completed", NoErrorType)
    ELSE Event("error", p, "read_error", "error", NoErrorType)

\* Variant of the read in which a failed read ends _execute_read_actions.
ReadNewFile_AbortsOnError ==
    /\ pc = "read_run"
    /\ LET p == Head(pending_reads).file_path
       IN  /\ \E ok \in BOOLEAN :
               /\ gathered_context' =
                     [q \in DOMAIN gathered_context \cup {p} |->
                        IF q = p THEN (IF ok THEN "content" ELSE "Error")
                        ELSE gathered_context[q]]
               /\ Emit(<<ReadResultEvent(p, ok)>>)
               /\ AfterRead(IF ok THEN Tail(pending_reads) ELSE <<>>,
                            gathered_context', execution_log)
    /\ UNCHANGED serviceVars
    /\ UNCHANGED <<max_iterations, iteration_count, read_files, execution_log,
                   total_actions, llm_calls, batch,
                   batch_idx, batch_start, attempted, action_hooks,
                   completion_hooks, entered, forced_at, all_thinking, only_p1,
                   dup_total, max_dups, reply_dups, scenario>>

\* _execute_read_actions: the announced path is read; fs_service.read_file
\* returns the content (ok) or raises.
ReadNewFile ==
    /\ pc = "read_run"
    /\ LET p == Head(pending_reads).file_path
       IN  /\ \E ok \in BOOLEAN :
               /\ gathered_context' =
                     [q \in DOMAIN gathered_context \cup {p} |->
                        IF q = p THEN (IF ok THEN "content" ELSE "Error")
                        ELSE gathered_context[q]]
               /\ Emit(<<ReadResultEvent(p, ok)>>)
           /\ AfterRead(Tail(pending_reads), gathered_context', execution_log)
    /\ UNCHANGED serviceVars
    /\ UNCHANGED <<max_iterations, iteration_count, read_files, execution_log,
                   total_actions, llm_calls, batch,
                   batch_idx, batch_start, attempted, action_hooks,
                   completion_hooks, entered, forced_at, all_thinking, only_p1,
                   dup_total, max_dups, reply_dups, scenario>>


\* Variant of the forced call in which a reply with thinking = True is not
\* executed: the loop goes on.
ForcedReply_HonoursThinking ==
    /\ pc = "force"
    /\ \E b \in Batches, th \in BOOLEAN :
        /\ llm_calls' = llm_calls + 1
        /\ events' = events
        /\ IF th
           THEN /\ pc' = "loop"
                /\ UNCHANGED <<batch, batch_idx, batch_start>>
           ELSE StartBatch(b)
        /\ all_thinking' = (all_thinking /\ th)
        /\ scenario' = IF scenario = "s1" /\ ~th /\ b = <<CreateP2>> THEN "s2" ELSE "off"
    /\ UNCHANGED serviceVars
    /\ UNCHANGED <<max_iterations, iteration_count, read_files, gathered_context,
                   execution_log, current_context, total_actions, pending_reads,
                   attempted, action_hooks, completion_hooks, entered, forced_at,
                   only_p1, dup_total, max_dups, reply_dups>>

\* _force_execution_mode returns the actions of the forced reply; its
\* thinking flag is not looked at.
ForcedReply ==
    /\ pc = "force"
    /\ \E b \in Batches, th \in BOOLEAN :
        /\ llm_calls' = llm_calls + 1
        /\ events' = events
        /\ StartBatch(b)
        /\ all_thinking' = (all_thinking /\ th)
        /\ scenario' = IF scenario = "s1" /\ ~th /\ b = <<CreateP2>> THEN "s2" ELSE "off"
    /\ UNCHANGED serviceVars
    /\ UNCHANGED <<max_iterations, iteration_count, read_files, gathered_context,
                   execution_log, current_context, total_actions, pending_reads,
                   attempted, action_hooks, completion_hooks, entered, forced_at,
                   only_p1, dup_total, max_dups, reply_dups>>

\* The LLM call or the parse inside _force_execution_mode raises: the
\* iteration's handler catches it.
ForcedCallRaises ==
    /\ pc = "force"
    /\ IterationFails

\* _execute_actions: the next action of the batch is announced; the
\* generator is suspended at the pending update.
ExecActionPending ==
    /\ pc = "exec"
    /\ batch_idx <= Len(batch)
    /\ LET a == batch[batch_idx]
       IN  Emit(<<Event(MapActionToUpdateType(a.action), a.file_path, "action",
                       "pending", NoErrorType)>>)
    /\ pc' = "exec_run"
    /\ UNCHANGED serviceVars
    /\ UNCHANGED <<max_iterations, iteration_count, read_files, gathered_context,
                   execution_log, current_context, total_actions, llm_calls,
                   pending_reads, batch, batch_idx, batch_start, attempted,
                   action_hooks, completion_hooks, entered, forced_at,
                   all_thinking, only_p1, dup_total, max_dups, reply_dups, scenario>>

\* _execute_actions: the announced action is executed with success.
ExecActionSucceeds ==
    /\ pc = "exec_run"
    /\ LET a == batch[batch_idx]
           ut == MapActionToUpdateType(a.action)
       IN  /\ \E tool_ok \in BOOLEAN : ExecuteAction(a, tool_ok)
           /\ attempted' = Append(attempted, a)
           /\ action_hooks' = Append(action_hooks,
                 [type |-> a.action, path |-> a.file_path, status |-> "completed"])
           /\ total_actions' = total_actions + 1
           /\ Emit(<<Event(ut, a.file_path, "action", "completed", NoErrorType)>>)
           /\ batch_idx' = batch_idx + 1
           /\ pc' = "exec"
    /\ NotifyWebhook
    /\ UNCHANGED <<max_iterations, iteration_count, read_files, gathered_context,
                   execution_log, current_context, llm_calls, pending_reads, batch,
                   batch_start, completion_hooks, entered, forced_at, all_thinking,
                   only_p1, dup_total, max_dups, reply_dups, scenario>>

\* Variant of the failure branch of _execute_actions without its `return`:
\* the batch goes on with the next action.
ExecActionFails_NoReturn ==
    /\ pc = "exec_run"
    /\ LET a == batch[batch_idx]
       IN  /\ \E tool_ok \in BOOLEAN : ~ExecuteAction(a, tool_ok)
           /\ attempted' = Append(attempted, a)
           /\ action_hooks' = Append(action_hooks,
                 [type |-> a.action, path |-> a.file_path, status |-> "error"])
           /\ Emit(<<Event("error", a.file_path, "failed", "error", NoErrorType)>>)
           /\ batch_idx' = batch_idx + 1
           /\ pc' = "exec"
    /\ NotifyWebhook
    /\ UNCHANGED <<max_iterations, iteration_count, read_files, gathered_context,
                   execution_log, current_context, total_actions, llm_calls,
                   pending_reads, batch, batch_start, completion_hooks,
                   entered, forced_at, all_thinking, only_p1, dup_total, max_dups, reply_dups,
                   scenario>>

\* Variant of the failure branch of _execute_actions that counts the failed
\* action in total_actions.
ExecActionFails_Counted ==
    /\ pc = "exec_run"
    /\ LET a == batch[batch_idx]
       IN  /\ \E tool_ok \in BOOLEAN : ~ExecuteAction(a, tool_ok)
           /\ attempted' = Append(attempted, a)
           /\ action_hooks' = Append(action_hooks,
                 [type |-> a.action, path |-> a.file_path, status |-> "error"])
           /\ Emit(<<Event("error", a.file_path, "failed", "error", NoErrorType)>>)
           /\ total_actions' = total_actions + 1
           /\ pc' = "hook"
    /\ NotifyWebhook
    /\ UNCHANGED <<max_iterations, iteration_count, read_files, gathered_context,
                   execution_log, current_context, llm_calls,
                   pending_reads, batch, batch_idx, batch_start, completion_hooks,
                   entered, forced_at, all_thinking, only_p1, dup_total, max_dups, reply_dups,
                   scenario>>

\* _execute_actions: the announced action fails; the batch is left.
ExecActionFails ==
    /\ pc = "exec_run"
    /\ LET a == batch[batch_idx]
       IN  /\ \E tool_ok \in BOOLEAN : ~ExecuteAction(a, tool_ok)
           /\ attempted' = Append(attempted, a)
           /\ action_hooks' = Append(action_hooks,
                 [type |-> a.action, path |-> a.file_path, status |-> "error"])
           /\ Emit(<<Event("error", a.file_path, "failed", "error", NoErrorType)>>)
           /\ pc' = "hook"
    /\ NotifyWebhook
    /\ UNCHANGED <<max_iterations, iteration_count, read_files, gathered_context,
                   execution_log, current_context, total_actions, llm_calls,
                   pending_reads, batch, batch_idx, batch_start, completion_hooks,
                   entered, forced_at, all_thinking, only_p1, dup_total, max_dups, reply_dups,
                   scenario>>

\* _execute_actions: every action succeeded; the completion message.
BatchCompleted ==
    /\ pc = "exec"
    /\ batch_idx > Len(batch)
    /\ Emit(<<Event("completed", "", "all_done", "completed", NoErrorType)>>)
    /\ pc' = "hook"
    /\ UNCHANGED serviceVars
    /\ UNCHANGED <<max_iterations, iteration_count, read_files, gathered_context,
                   execution_log, current_context, total_actions, llm_calls,
                   pending_reads, batch, batch_idx, batch_start, attempted,
                   action_hooks, completion_hooks, entered, forced_at,
                   all_thinking, only_p1, dup_total, max_dups, reply_dups, scenario>>

\* _send_completion_webhook(success=True), then the workflow returns.
CompletionSuccessFlag(aborted) == TRUE

SendCompletionWebhook ==
    /\ pc = "hook"
    /\ completion_hooks' = Append(completion_hooks,
          [success |-> CompletionSuccessFlag(batch_idx <= Len(batch)),
           totalActions |-> total_actions])
    /\ pc' = "done"
    /\ NotifyWebhook
    /\ UNCHANGED <<max_iterations, iteration_count, read_files, gathered_context,
                   execution_log, current_context, total_actions, events,
                   llm_calls, pending_reads, batch, batch_idx, batch_start,
                   attempted, action_hooks, entered, forced_at, all_thinking,
                   only_p1, dup_total, max_dups, reply_dups, scenario>>

Next ==
    \/ RunStart
    \/ LoopEnter
    \/ MaxIterationsReached
    \/ GenerateCompletionRaises
    \/ ParseAgentResponseRaises
    \/ ReplyExecute
    \/ ReplyThinking
    \/ SkipAlreadyRead
    \/ ReadPending
    \/ ReadNewFile
    \/ ForcedReply
    \/ ForcedCallRaises
    \/ ExecActionPending
    \/ ExecActionSucceeds
    \/ ExecActionFails
    \/ BatchCompleted
    \/ SendCompletionWebhook

Spec == Init /\ [][Next]_vars

\* -------------------------------------- the run with a raising webhook client
\* _execute_actions: the announced action has been executed (with or without
\* success) and reporting it raises, in `async with self.webhook_service`
\* or in send_action; the handler of the action reports an error and the
\* batch is left.
ExecActionWebhookRaises ==
    /\ pc = "exec_run"
    /\ LET a == batch[batch_idx]
       IN  /\ attempted' = Append(attempted, a)
           /\ Emit(<<Event("error", a.file_path, "exception", "error", NoErrorType)>>)
           /\ pc' = "hook"
    /\ \/ UNCHANGED serviceVars   \* __aenter__ raised: no session
       \/ NotifyWebhook           \* send_action raised: __aexit__ closes the session
    /\ UNCHANGED <<max_iterations, iteration_count, read_files, gathered_context,
                   execution_log, current_context, total_actions, llm_calls,
                   pending_reads, batch, batch_idx, batch_start, action_hooks,
                   completion_hooks, entered, forced_at, all_thinking, only_p1,
                   dup_total, max_dups, reply_dups, scenario>>

WebhookFaultNext ==
    \/ Next
    \/ ExecActionWebhookRaises

WebhookFaultSpec == Init /\ [][WebhookFaultNext]_vars

\* ------------------------------------------- WebhookService: one notification
\* What one POST of _send_webhook_with_retry can meet: status 200 with a JSON
\* body, status 200 with a body response.json() rejects, another status, an
\* exception of the transport.  A closed session raises on post.
SendOutcomes(sess) ==
    IF sess = "open" THEN {"200_json", "200_bad_body", "non_200", "exception"}
    ELSE {"exception"}

RECURSIVE Pow2(_)
Pow2(n) == IF n = 0 THEN 1 ELSE 2 * Pow2(n - 1)

\* Variant of the backoff with the same delay before every retry.
BackoffDelay_Constant(att) == RetryDelay

\* delay = self.retry_delay * (2**attempt)
BackoffDelay(att) == RetryDelay * Pow2(att)

\* Everything but the webhook service stays as constructed.
WebhookFrame == UNCHANGED <<agentVars, otherServiceVars>>

\* __aenter__: a new client session replaces whatever session was there.
WebhookOpen ==
    /\ wh_pc = "idle"
    /\ session # "open"
    /\ acquired < MaxSessions
    /\ session' = "open"
    /\ acquired' = acquired + 1
    /\ UNCHANGED <<wh_pc, attempt, sends, delays, wh_result>>
    /\ WebhookFrame

\* __aexit__: the session is closed; the attribute keeps the closed session.
WebhookClose ==
    /\ wh_pc = "idle"
    /\ session = "open"
    /\ session' = "closed"
    /\ UNCHANGED <<wh_pc, acquired, attempt, sends, delays, wh_result>>
    /\ WebhookFrame

\* _send_webhook_with_retry is called: the loop starts with attempt 0.
WebhookCall ==
    /\ wh_pc = "idle"
    /\ wh_pc' = "attempt"
    /\ attempt' = 0
    /\ sends' = <<>>
    /\ delays' = <<>>
    /\ wh_result' = NoResult
    /\ UNCHANGED <<session, acquired>>
    /\ WebhookFrame

\* `if not self.session: return False`
WebhookNoSession ==
    /\ wh_pc = "attempt"
    /\ attempt < RetryAttempts
    /\ session = "none"
    /\ wh_result' = "False"
    /\ wh_pc' = "returned"
    /\ UNCHANGED <<session, acquired, attempt, sends, delays>>
    /\ WebhookFrame

\* Variant of the attempt without the `except Exception`: an exception of
\* the transport reaches the caller.
WebhookAttempt_NoExcept ==
    /\ wh_pc = "attempt"
    /\ attempt < RetryAttempts
    /\ session # "none"
    /\ \E o \in SendOutcomes(session) :
        /\ sends' = Append(sends, o)
        /\ IF o = "200_json"
           THEN /\ wh_result' = "True"
                /\ wh_pc' = "returned"
           ELSE IF o \in {"exception", "200_bad_body"}
           THEN /\ wh_result' = "raised"
                /\ wh_pc' = "returned"
           ELSE /\ wh_pc' = "backoff"
                /\ UNCHANGED wh_result
    /\ UNCHANGED <<session, acquired, attempt, delays>>
    /\ WebhookFrame

\* One POST.  Status 200 with a JSON body returns True; every other outcome
\* (an exception included: it is caught) goes on to the backoff.
WebhookAttempt ==
    /\ wh_pc = "attempt"
    /\ attempt < RetryAttempts
    /\ session # "none"
    /\ \E o \in SendOutcomes(session) :
        /\ sends' = Append(sends, o)
        /\ IF o = "200_json"
           THEN /\ wh_result' = "True"
                /\ wh_pc' = "returned"
           ELSE /\ wh_pc' = "backoff"
                /\ UNCHANGED wh_result
    /\ UNCHANGED <<session, acquired, attempt, delays>>
    /\ WebhookFrame

\* The sleep before the next attempt, skipped after the last attempt.
WebhookBackoff ==
    /\ wh_pc = "backoff"
    /\ delays' = IF attempt < RetryAttempts - 1
                 THEN Append(delays, BackoffDelay(attempt))
                 ELSE delays
    /\ attempt' = attempt + 1
    /\ wh_pc' = "attempt"
    /\ UNCHANGED <<session, acquired, sends, wh_result>>
    /\ WebhookFrame

\* The loop is over: `return False`.
WebhookExhausted ==
    /\ wh_pc = "attempt"
    /\ attempt >= RetryAttempts
    /\ wh_result' = "False"
    /\ wh_pc' = "returned"
    /\ UNCHANGED <<session, acquired, attempt, sends, delays>>
    /\ WebhookFrame

\* The caller has the result; the service is ready for the next notification.
WebhookReturn ==
    /\ wh_pc = "returned"
    /\ wh_pc' = "idle"
    /\ UNCHANGED <<session, acquired, attempt, sends, delays, wh_result>>
    /\ WebhookFrame

WebhookInit ==
    /\ max_iterations = 1
    /\ AgentIdle
    /\ WebhookIdle
    /\ OthersIdle

WebhookNext ==
    \/ WebhookOpen
    \/ WebhookClose
    \/ WebhookCall
    \/ WebhookNoSession
    \/ WebhookAttempt
    \/ WebhookBackoff
    \/ WebhookExhausted
    \/ WebhookReturn

WebhookSpec == WebhookInit /\ [][WebhookNext]_vars

\* --------------------------------------- ActionExecutor: one execute_action
\* A file path is the sequence of its characters.
PathChars == {"/", ".", "a", " "}

RECURSIVE PathsOfLen(_)
PathsOfLen(n) ==
    IF n = 0 THEN {<<>>}
    ELSE {Append(q, c) : q \in PathsOfLen(n - 1), c \in PathChars}

Paths == UNION {PathsOfLen(n) : n \in 0..MaxPathLen}

\* The action kinds execute_action can be handed: the ActionType members and
\* a kind that is none of them.
ExecutorKinds == ActionTypes \cup {"unknownAction"}

Contents == {NoContent, "", "x"}

\* What tool.execute does when called: a result dict with success True, with
\* success False, without the key, or an exception.
ToolBehaviours == {"success_true", "success_false", "no_success_key", "raises"}

\* TOOLS of tools/file_tools.py and get_tool.
ToolRegistry == {"readFile", "editFile", "createFile", "deleteFile",
                 "createDirectory", "removeDirectory", "search"}

NoTool == "<no tool>"

GetTool(name) == IF name \in ToolRegistry THEN name ELSE NoTool

\* str.strip()
RECURSIVE LStrip(_)
LStrip(str) == IF str # <<>> /\ Head(str) = " " THEN LStrip(Tail(str)) ELSE str

RECURSIVE RStrip(_)
RStrip(str) ==
    IF str # <<>> /\ str[Len(str)] = " "
    THEN RStrip(SubSeq(str, 1, Len(str) - 1))
    ELSE str

Strip(str) == RStrip(LStrip(str))

\* str.startswith
StartsWith(str, prefix) ==
    /\ Len(str) >= Len(prefix)
    /\ SubSeq(str, 1, Len(prefix)) = prefix

DropFirst(str, n) == SubSeq(str, n + 1, Len(str))

\* normalize_action, file_path: strip, then one leading "/" is removed, then
\* one leading "./" is removed.
NormalizePath(file_path) ==
    LET stripped == Strip(file_path)
        unslashed == IF StartsWith(stripped, <<"/">>) THEN DropFirst(stripped, 1)
                     ELSE stripped
    IN  IF StartsWith(unslashed, <<".", "/">>) THEN DropFirst(unslashed, 2)
        ELSE unslashed

NormalizeAction(a) == [a EXCEPT !.file_path = NormalizePath(a.file_path)]

\* fs_service.get_project_path: /app/projects/<project_id>, as path segments.
ProjectPath == << <<"app">>, <<"projects">>, <<"123">> >>

\* The segments of a path string as pathlib keeps them: empty segments and
\* "." segments are dropped, ".." segments stay.
RECURSIVE SplitPath(_, _, _)
SplitPath(str, cur, acc) ==
    LET closed == IF cur \in {<<>>, <<".">>} THEN acc ELSE Append(acc, cur)
    IN  IF str = <<>> THEN closed
        ELSE IF Head(str) = "/" THEN SplitPath(Tail(str), <<>>, closed)
        ELSE SplitPath(Tail(str), Append(cur, Head(str)), acc)

Segments(str) == SplitPath(str, <<>>, <<>>)

\* _get_full_path: project_path / file_path.  An absolute right operand
\* replaces the left one.
GetFullPath(file_path) ==
    IF StartsWith(file_path, <<"/">>) THEN Segments(file_path)
    ELSE ProjectPath \o Segments(file_path)

\* The directory entry an absolute path names once the file system has
\* followed its ".." segments.
RECURSIVE ResolveFrom(_, _)
ResolveFrom(segs, stack) ==
    IF segs = <<>> THEN stack
    ELSE IF Head(segs) = <<".", ".">>
         THEN ResolveFrom(Tail(segs),
                          IF stack = <<>> THEN stack
                          ELSE SubSeq(stack, 1, Len(stack) - 1))
         ELSE ResolveFrom(Tail(segs), Append(stack, Head(segs)))

Resolve(segs) == ResolveFrom(segs, <<>>)

InsideProject(segs) == StartsWith(Resolve(segs), ProjectPath)

\* The argument list of tool.execute for the normalized action.
ToolArguments(na) ==
    IF na.action \in {"editFile", "createFile"}
    THEN <<GetFullPath(na.file_path), na.content>>
    ELSE IF na.action = "search" THEN <<na.file_path>>
    ELSE <<GetFullPath(na.file_path)>>

\* Everything but the executor stays as constructed.
ExecutorFrame == UNCHANGED <<agentVars, webhookVars, parserVars, chatVars, dockerVars>>

\* execute_action: get_tool finds no tool for the kind.
ExecNoTool ==
    /\ ex_pc = "called"
    /\ GetTool(NormalizeAction(ex_action).action) = NoTool
    /\ ex_result' = "False"
    /\ ex_normalized' = NormalizeAction(ex_action)
    /\ ex_pc' = "returned"
    /\ UNCHANGED <<ex_action, ex_tool, tool_calls>>
    /\ ExecutorFrame

\* `not normalized_action.content`
ContentMissing(content) == content \in {NoContent, ""}

\* _execute_tool_action: EditFile or CreateFile without content.
ExecMissingContent ==
    /\ ex_pc = "called"
    /\ LET na == NormalizeAction(ex_action)
       IN  /\ GetTool(na.action) # NoTool
           /\ na.action \in {"editFile", "createFile"}
           /\ ContentMissing(na.content)
    /\ ex_result' = "False"
    /\ ex_normalized' = NormalizeAction(ex_action)
    /\ ex_pc' = "returned"
    /\ UNCHANGED <<ex_action, ex_tool, tool_calls>>
    /\ ExecutorFrame

\* Variant of the result of a tool call without the `except Exception` of
\* _execute_tool_action and execute_action.
ToolCallResult_NoExcept(behaviour) ==
    IF behaviour = "raises" THEN "raised"
    ELSE IF behaviour = "success_true" THEN "True" ELSE "False"

\* What execute_action returns once the tool has been called:
\* result.get("success", False), an exception counting as False.
ToolCallResult(behaviour) ==
    IF behaviour = "success_true" THEN "True" ELSE "False"

\* _execute_tool_action: the tool is called.
ExecCallTool ==
    /\ ex_pc = "called"
    /\ LET na == NormalizeAction(ex_action)
       IN  /\ GetTool(na.action) # NoTool
           /\ ~(na.action \in {"editFile", "createFile"} /\ ContentMissing(na.content))
           /\ tool_calls' = Append(tool_calls, ToolArguments(na))
    /\ ex_result' = ToolCallResult(ex_tool)
    /\ ex_normalized' = NormalizeAction(ex_action)
    /\ ex_pc' = "returned"
    /\ UNCHANGED <<ex_action, ex_tool>>
    /\ ExecutorFrame

\* One call of execute_action, for every action and every tool behaviour.
ExecutorInit ==
    /\ max_iterations = 1
    /\ AgentIdle
    /\ WebhookIdle
    /\ ex_pc = "called"
    /\ ex_action \in {Act(k, p, c) : k \in ExecutorKinds, p \in Paths, c \in Contents}
    /\ ex_tool \in ToolBehaviours
    /\ tool_calls = <<>>
    /\ ex_normalized = Act("readFile", <<>>, NoContent)
    /\ ex_result = NoResult
    /\ ParserIdle
    /\ ChatIdle
    /\ DockerIdle

ExecutorNext ==
    \/ ExecNoTool
    \/ ExecMissingContent
    \/ ExecCallTool

ExecutorSpec == ExecutorInit /\ [][ExecutorNext]_vars

\* ------------------------------------ LLMService: one parse_agent_response
\* A reply is described by what json.loads makes of it.  The text of a
\* content string is a sequence of tokens, Fence standing for three
\* backquotes and "x" for any other text.
Fence == "<fence>"
Absent == "<absent>"

Entry(shape, action, path, has_content, content, message) ==
    [shape |-> shape, action |-> action, file_path |-> path,
     has_content |-> has_content, content |-> content, message |-> message]

\* The entries an `actions` array is made of: three well-formed actions
\* whose content has no fence, two fences, one fence; a well-formed action
\* without content; an entry without message; an entry of unknown kind; an
\* entry that is not an object.
EntryPool ==
    { Entry("dict", "createFile", P2, TRUE, <<"x">>, "m"),
      Entry("dict", "createFile", P2, TRUE, <<Fence, "x", Fence>>, "m"),
      Entry("dict", "editFile", P1, TRUE, <<"x", Fence>>, "m"),
      Entry("dict", "readFile", P1, FALSE, <<>>, "m"),
      Entry("dict", "readFile", P1, FALSE, <<>>, Absent),
      Entry("dict", "runCommand", P1, FALSE, <<>>, "m"),
      Entry("string", Absent, Absent, FALSE, <<>>, Absent) }

RECURSIVE EntryListsOfLen(_)
EntryListsOfLen(n) ==
    IF n = 0 THEN {<<>>}
    ELSE {Append(l, e) : l \in EntryListsOfLen(n - 1), e \in EntryPool}

EntryLists == UNION {EntryListsOfLen(n) : n \in 0..MaxEntries}

\* wrapped: the reply is enclosed in a markdown code block.  top: the JSON
\* value is an object, another JSON value, or the text is no JSON.
\* thinking: the `thinking` member.  actions_kind, entries: the `actions`
\* member.
Replies ==
    {[wrapped |-> w, top |-> "object", thinking |-> t, actions_kind |-> "list",
      entries |-> l] :
        w \in BOOLEAN, t \in {Absent, "true", "false", "null", "string"},
        l \in EntryLists}
    \cup
    {[wrapped |-> w, top |-> tp, thinking |-> t, actions_kind |-> k,
      entries |-> <<>>] :
        w \in BOOLEAN, tp \in {"object", "array", "not_json"},
        t \in {Absent, "false"}, k \in {Absent, "not_list"}}

\* Action(**action_data) constructs.
IsValidEntry(e) ==
    /\ e.shape = "dict"
    /\ e.action \in ActionTypes
    /\ e.file_path # Absent
    /\ e.message # Absent

FenceCount(tokens) == Len(SelectSeq(tokens, LAMBDA k : k = Fence))

RECURSIVE FencesOf(_)
FencesOf(entries) ==
    IF entries = <<>> THEN 0
    ELSE FenceCount(Head(entries).content) + FencesOf(Tail(entries))

\* The fences of the reply text, the enclosing code block included.
TotalFences(r) == (IF r.wrapped THEN 2 ELSE 0) + FencesOf(r.entries)

\* re.sub of the fence pattern: the fences are matched in pairs from the
\* left and every matched fence is removed, the text between them is kept;
\* `seen` fences precede the tokens and the first `matched` fences of the
\* text are in a pair.
RECURSIVE CleanTokens(_, _, _)
CleanTokens(tokens, seen, matched) ==
    IF tokens = <<>> THEN <<>>
    ELSE IF Head(tokens) = Fence
         THEN (IF seen + 1 <= matched THEN <<>> ELSE <<Fence>>)
              \o CleanTokens(Tail(tokens), seen + 1, matched)
         ELSE <<Head(tokens)>> \o CleanTokens(Tail(tokens), seen, matched)

RECURSIVE CleanEntries(_, _, _)
CleanEntries(entries, seen, matched) ==
    IF entries = <<>> THEN <<>>
    ELSE LET e == Head(entries)
         IN  <<[e EXCEPT !.content = CleanTokens(e.content, seen, matched)]>>
             \o CleanEntries(Tail(entries), seen + FenceCount(e.content), matched)

MatchedFences(r) == 2 * (TotalFences(r) \div 2)

\* The entries as json.loads sees them after the clean-up.
CleanedEntries(r) ==
    CleanEntries(r.entries, IF r.wrapped THEN 1 ELSE 0, MatchedFences(r))

\* json.loads accepts the cleaned text: the text was JSON and the closing
\* fence of an enclosing code block found its partner.
CleanedIsJSON(r) ==
    /\ r.top # "not_json"
    /\ r.wrapped => TotalFences(r) % 2 = 0

\* Variant of the default: a reply without the member is ready to execute.
ThinkingOf_DefaultFalse(r) ==
    IF r.top # "object" THEN FALSE
    ELSE r.thinking \in {"true", "string"}

\* bool(parsed_response["thinking"]), True when the member is missing.
ThinkingOf(r) ==
    IF r.top # "object" THEN TRUE
    ELSE r.thinking \in {Absent, "true", "string"}

\* The Action built from an entry.
ToAction(e) ==
    [action |-> e.action, file_path |-> e.file_path,
     has_content |-> e.has_content, content |-> e.content,
     message |-> e.message]

RECURSIVE ToActions(_)
ToActions(entries) ==
    IF entries = <<>> THEN <<>>
    ELSE <<ToAction(Head(entries))>> \o ToActions(Tail(entries))

\* The validation loop: the entries that construct an Action, in order.
ValidActions(entries) == ToActions(SelectSeq(entries, IsValidEntry))

ParserFrame == UNCHANGED <<agentVars, webhookVars, executorVars, chatVars, dockerVars>>

\* json.loads raises JSONDecodeError; parse_agent_response raises.
ParseRaises ==
    /\ ps_pc = "called"
    /\ ~CleanedIsJSON(reply)
    /\ parsed' = [raised |-> TRUE, thinking |-> TRUE, actions |-> <<>>]
    /\ ps_pc' = "returned"
    /\ UNCHANGED <<reply, llm_pc, requests>>
    /\ ParserFrame

\* json.loads succeeds; parse_agent_response returns `result`.
ParseReturns ==
    /\ ps_pc = "called"
    /\ CleanedIsJSON(reply)
    /\ parsed' = [raised |-> FALSE,
                  thinking |-> ThinkingOf(reply),
                  actions |-> IF reply.top = "object" /\ reply.actions_kind = "list"
                              THEN ValidActions(CleanedEntries(reply))
                              ELSE <<>>]
    /\ ps_pc' = "returned"
    /\ UNCHANGED <<reply, llm_pc, requests>>
    /\ ParserFrame

\* The caller is the loop of _run_agentic_workflow: a reply with thinking =
\* False starts the execution batch, any other goes on to the duplicate
\* check and the reads.
WorkflowTakesReply ==
    /\ ps_pc = "returned"
    /\ ~parsed.raised
    /\ ps_pc' = IF parsed.thinking THEN "thinking" ELSE "batch"
    /\ UNCHANGED <<reply, parsed, llm_pc, requests>>
    /\ ParserFrame

\* The caller is _force_execution_mode: the actions are returned and
\* executed, the flag is not read.
ForcedTakesReply ==
    /\ ps_pc = "returned"
    /\ ~parsed.raised
    /\ ps_pc' = "forced_batch"
    /\ UNCHANGED <<reply, parsed, llm_pc, requests>>
    /\ ParserFrame

\* parse_agent_response raised: the handler of the iteration has it.
CallerCatchesParseError ==
    /\ ps_pc = "returned"
    /\ parsed.raised
    /\ ps_pc' = "failed"
    /\ UNCHANGED <<reply, parsed, llm_pc, requests>>
    /\ ParserFrame

\* One call of parse_agent_response, for every reply of the bounded set.
ParserInit ==
    /\ max_iterations = 1
    /\ AgentIdle
    /\ WebhookIdle
    /\ ExecutorIdle
    /\ ChatIdle
    /\ DockerIdle
    /\ ps_pc = "called"
    /\ reply \in Replies
    /\ parsed = NoResult
    /\ llm_pc = "idle"
    /\ requests = <<>>

ParserNext ==
    \/ ParseRaises
    \/ ParseReturns
    \/ WorkflowTakesReply
    \/ ForcedTakesReply
    \/ CallerCatchesParseError

ParserSpec == ParserInit /\ [][ParserNext]_vars

\* ------------------------------------------- chat_simple: one request
ChatFrame == UNCHANGED <<agentVars, webhookVars, executorVars, parserVars, dockerVars>>

\* agent.run yields an update; it is appended and the limit is not passed.
ChatAppend ==
    /\ ch_pc = "collecting"
    /\ updates + 1 <= SafetyLimit
    /\ updates' = updates + 1
    /\ UNCHANGED ch_pc
    /\ UNCHANGED <<st_pc, frames>>
    /\ ChatFrame

\* agent.run yields an update; it is appended, the list is longer than the
\* limit, the loop breaks and the response is built from the list.
ChatLimitReached ==
    /\ ch_pc = "collecting"
    /\ updates + 1 > SafetyLimit
    /\ updates' = updates + 1
    /\ ch_pc' = "returned"
    /\ UNCHANGED <<st_pc, frames>>
    /\ ChatFrame

\* agent.run is exhausted; the response is built from the list.
ChatRunEnds ==
    /\ ch_pc = "collecting"
    /\ ch_pc' = "returned"
    /\ UNCHANGED updates
    /\ UNCHANGED <<st_pc, frames>>
    /\ ChatFrame

\* agent.run raises; the request fails with status 500.
ChatRunRaises ==
    /\ ch_pc = "collecting"
    /\ ch_pc' = "failed"
    /\ UNCHANGED updates
    /\ UNCHANGED <<st_pc, frames>>
    /\ ChatFrame

ChatInit ==
    /\ max_iterations = 1
    /\ AgentIdle
    /\ WebhookIdle
    /\ ExecutorIdle
    /\ ParserIdle
    /\ DockerIdle
    /\ ch_pc = "collecting"
    /\ updates = 0
    /\ st_pc = "idle"
    /\ frames = <<>>

ChatNext ==
    \/ ChatAppend
    \/ ChatLimitReached
    \/ ChatRunEnds
    \/ ChatRunRaises

ChatSpec == ChatInit /\ [][ChatNext]_vars

\* --------------------------------------------------- DockerService
\* `containers` is the dict of the service: a function whose domain is the
\* set of tracked projects, each mapped to the host port of its preview
\* (the url is http://localhost:<port>).
Track(dict, p, port) ==
    [q \in (DOMAIN dict) \cup {p} |-> IF q = p THEN port ELSE dict[q]]

\* del dict[p]
Untrack(dict, p) == [q \in (DOMAIN dict) \ {p} |-> dict[q]]

\* What client.containers.get / stop / remove can do for a container the
\* daemon has or has not.
StopOutcomes(d) ==
    IF d.status = "absent" THEN {"not_found", "error"} ELSE {"ok", "error"}

\* Variant of stop_preview whose `del` is at the end of the try block.
StopEffect_NoFinally(st, p, outcome) ==
    IF p \notin DOMAIN st.containers THEN st
    ELSE [containers |-> IF outcome = "ok"
                         THEN Untrack(st.containers, p) ELSE st.containers,
          daemon |-> IF outcome = "ok"
                     THEN [st.daemon EXCEPT ![p] = AbsentContainer]
                     ELSE st.daemon]

\* The body of stop_preview on the pair st = [containers, daemon]: nothing
\* for an untracked project; else stop and remove the container, swallow
\* NotFound and any other exception, and delete the entry in `finally`.
StopEffect(st, p, outcome) ==
    IF p \notin DOMAIN st.containers THEN st
    ELSE [containers |-> Untrack(st.containers, p),
          daemon |-> IF outcome = "ok"
                     THEN [st.daemon EXCEPT ![p] = AbsentContainer]
                     ELSE st.daemon]

\* The loop of stop_all_previews over the projects ps.
RECURSIVE StopAllEffect(_, _, _)
StopAllEffect(st, ps, outcomes) ==
    IF ps = {} THEN st
    ELSE LET p == CHOOSE q \in ps : TRUE
         IN  StopAllEffect(StopEffect(st, p, outcomes[p]), ps \ {p}, outcomes)

DockerFrame == UNCHANGED <<agentVars, webhookVars, executorVars, parserVars, chatVars>>

\* A method may be called in a slot where no call is under way.
Callable(c) == callers[c].pc \in {"idle", "done"}

\* start_preview of a tracked project returns the url it has.
StartPreviewTracked(c, p) ==
    /\ Callable(c)
    /\ p \in DOMAIN containers
    /\ callers' = [callers EXCEPT ![c] =
           [op |-> "start", project |-> p, pc |-> "done", result |-> "returned",
            url |-> containers[p], tracked |-> TRUE, outcome |-> NoResult,
            overlap |-> FALSE, found |-> NoResult]]
    /\ UNCHANGED <<containers, daemon>>
    /\ DockerFrame

\* start_preview of an untracked project whose container runs: the
\* container is tracked and its url returned.
StartPreviewReuse(c, p) ==
    /\ Callable(c)
    /\ p \notin DOMAIN containers
    /\ daemon[p].status = "running"
    /\ containers' = Track(containers, p, daemon[p].port)
    /\ callers' = [callers EXCEPT ![c] =
           [op |-> "start", project |-> p, pc |-> "done", result |-> "returned",
            url |-> daemon[p].port, tracked |-> FALSE, outcome |-> NoResult,
            overlap |-> FALSE, found |-> NoResult]]
    /\ UNCHANGED daemon
    /\ DockerFrame

\* start_preview of an untracked project with no running container: a
\* stopped container is removed, and the call awaits
\* _ensure_project_database.
StartPreviewLookup(c, p) ==
    /\ Callable(c)
    /\ p \notin DOMAIN containers
    /\ daemon[p].status # "running"
    /\ daemon' = [daemon EXCEPT ![p] = AbsentContainer]
    /\ LET waiting == {d \in Calls \ {c} : /\ callers[d].op = "start"
                                             /\ callers[d].pc = "db"
                                             /\ callers[d].project = p}
       IN  callers' = [d \in Calls |->
               IF d = c
               THEN [op |-> "start", project |-> p, pc |-> "db",
                     result |-> NoResult, url |-> 0, tracked |-> FALSE,
                     outcome |-> NoResult, overlap |-> waiting # {},
                     found |-> NoResult]
               ELSE IF d \in waiting
                    THEN [callers[d] EXCEPT !.overlap = TRUE]
                    ELSE callers[d]]
    /\ UNCHANGED containers
    /\ DockerFrame

\* _ensure_project_database is over: a port is drawn, the container is run
\* under the name of the project, it is tracked and its url returned.
StartPreviewRun(c) ==
    /\ callers[c].pc = "db"
    /\ daemon[callers[c].project].status = "absent"
    /\ \E port \in Ports :
        /\ daemon' = [daemon EXCEPT ![callers[c].project] =
               [status |-> "running", port |-> port]]
        /\ containers' = Track(containers, callers[c].project, port)
        /\ callers' = [callers EXCEPT ![c].pc = "done", ![c].result = "returned",
                                      ![c].url = port]
    /\ DockerFrame

\* client.containers.run raises: "conflict" when the name of the container
\* is in use, "raised" for any other Docker error. start_preview has no
\* handler, so it raises and nothing is tracked by it.
StartPreviewRunRaises(c) ==
    /\ callers[c].pc = "db"
    /\ \E error \in IF daemon[callers[c].project].status = "absent"
                    THEN {"raised"} ELSE {"conflict", "raised"} :
        callers' = [callers EXCEPT ![c].pc = "done", ![c].result = error]
    /\ UNCHANGED <<containers, daemon>>
    /\ DockerFrame

\* stop_preview, which has no suspension point.
StopPreview(c, p) ==
    /\ Callable(c)
    /\ \E outcome \in StopOutcomes(daemon[p]) :
        LET st == StopEffect([containers |-> containers, daemon |-> daemon],
                             p, outcome)
        IN  /\ containers' = st.containers
            /\ daemon' = st.daemon
            /\ callers' = [callers EXCEPT ![c] =
                   [op |-> "stop", project |-> p, pc |-> "done",
                    result |-> "returned", url |-> 0,
                    tracked |-> p \in DOMAIN containers,
                    outcome |-> IF p \in DOMAIN containers
                                THEN outcome ELSE NoResult,
                    overlap |-> FALSE, found |-> NoResult]]
    /\ DockerFrame

\* stop_all_previews: stop_preview for every key of the dict, in one go
\* since stop_preview never suspends.
StopAllPreviews(c) ==
    /\ Callable(c)
    /\ \E outcomes \in [Projects -> {"ok", "not_found", "error"}] :
        /\ \A p \in Projects : outcomes[p] \in StopOutcomes(daemon[p])
        /\ LET st == StopAllEffect([containers |-> containers, daemon |-> daemon],
                                   DOMAIN containers, outcomes)
           IN  /\ containers' = st.containers
               /\ daemon' = st.daemon
    /\ callers' = [callers EXCEPT ![c] =
           [op |-> "stop_all", project |-> 0, pc |-> "done",
            result |-> "returned", url |-> 0,
            tracked |-> DOMAIN containers # {}, outcome |-> NoResult,
            overlap |-> FALSE, found |-> NoResult]]
    /\ DockerFrame

\* Outside the service: a running container exits, or a container is
\* removed.
DaemonChange(p) ==
    /\ daemon[p].status # "absent"
    /\ \/ /\ daemon[p].status = "running"
          /\ daemon' = [daemon EXCEPT ![p].status = "exited"]
       \/ daemon' = [daemon EXCEPT ![p] = AbsentContainer]
    /\ UNCHANGED <<containers, callers>>
    /\ DockerFrame

DockerInit ==
    /\ max_iterations = 1
    /\ AgentIdle
    /\ WebhookIdle
    /\ ExecutorIdle
    /\ ParserIdle
    /\ ChatIdle
    /\ DockerIdle

DockerNext ==
    \/ \E c \in Calls, p \in Projects : StartPreviewTracked(c, p)
    \/ \E c \in Calls, p \in Projects : StartPreviewReuse(c, p)
    \/ \E c \in Calls, p \in Projects : StartPreviewLookup(c, p)
    \/ \E c \in Calls : StartPreviewRun(c)
    \/ \E c \in Calls : StartPreviewRunRaises(c)
    \/ \E c \in Calls, p \in Projects : StopPreview(c, p)
    \/ \E c \in Calls : StopAllPreviews(c)
    \/ \E p \in Projects : DaemonChange(p)

DockerSpec == DockerInit /\ [][DockerNext]_vars

\* ------------------------------------------- the preview routes
\* get_docker_service, the dependency of every route: a DockerService built
\* for the request, whose dict is empty. The instance is dropped with the
\* request, so the variable `containers` is never written by a route.
FreshService == <<>>

\* The `running` field of what get_preview_status answers from the dict.
GetPreviewStatus(dict, p) == p \in DOMAIN dict

\* POST /preview/start when the ping of is_docker_available fails: 503.
PreviewStartUnavailable(c, p) ==
    /\ Callable(c)
    /\ callers' = [callers EXCEPT ![c] =
           [op |-> "start", project |-> p, pc |-> "done",
            result |-> "unavailable", url |-> 0, tracked |-> FALSE,
            outcome |-> NoResult, overlap |-> FALSE,
            found |-> daemon[p].status]]
    /\ UNCHANGED <<containers, daemon>>
    /\ DockerFrame

\* POST /preview/start, the container of the project runs: start_preview
\* on the fresh service finds it with containers.get and returns its url.
PreviewStartReuse(c, p) ==
    /\ Callable(c)
    /\ p \notin DOMAIN FreshService
    /\ daemon[p].status = "running"
    /\ callers' = [callers EXCEPT ![c] =
           [op |-> "start", project |-> p, pc |-> "done",
            result |-> "returned", url |-> daemon[p].port,
            tracked |-> FALSE, outcome |-> NoResult, overlap |-> FALSE,
            found |-> daemon[p].status]]
    /\ UNCHANGED <<containers, daemon>>
    /\ DockerFrame

\* POST /preview/start, no running container: a stopped one is removed and
\* the request awaits _ensure_project_database.
PreviewStartLookup(c, p) ==
    /\ Callable(c)
    /\ p \notin DOMAIN FreshService
    /\ daemon[p].status # "running"
    /\ daemon' = [daemon EXCEPT ![p] = AbsentContainer]
    /\ callers' = [callers EXCEPT ![c] =
           [op |-> "start", project |-> p, pc |-> "db", result |-> NoResult,
            url |-> 0, tracked |-> FALSE, outcome |-> NoResult,
            overlap |-> FALSE, found |-> daemon[p].status]]
    /\ UNCHANGED containers
    /\ DockerFrame

\* The container is run and its url answered; the entry start_preview
\* writes is in the dict of the request's own service.
PreviewStartRun(c) ==
    /\ callers[c].pc = "db"
    /\ daemon[callers[c].project].status = "absent"
    /\ \E port \in Ports :
        /\ daemon' = [daemon EXCEPT ![callers[c].project] =
               [status |-> "running", port |-> port]]
        /\ callers' = [callers EXCEPT ![c].pc = "done", ![c].result = "returned",
                                      ![c].url = port]
    /\ UNCHANGED containers
    /\ DockerFrame

\* client.containers.run raises and the route answers 500.
PreviewStartRunRaises(c) ==
    /\ callers[c].pc = "db"
    /\ \E error \in IF daemon[callers[c].project].status = "absent"
                    THEN {"raised"} ELSE {"conflict", "raised"} :
        callers' = [callers EXCEPT ![c].pc = "done", ![c].result = error]
    /\ UNCHANGED <<containers, daemon>>
    /\ DockerFrame

\* POST /preview/stop: stop_preview on the fresh service.
PreviewStop(c, p) ==
    /\ Callable(c)
    /\ \E outcome \in StopOutcomes(daemon[p]) :
        LET st == StopEffect([containers |-> FreshService, daemon |-> daemon],
                             p, outcome)
        IN  /\ daemon' = st.daemon
            /\ callers' = [callers EXCEPT ![c] =
                   [op |-> "stop", project |-> p, pc |-> "done",
                    result |-> "returned", url |-> 0,
                    tracked |-> p \in DOMAIN FreshService,
                    outcome |-> IF p \in DOMAIN FreshService
                                THEN outcome ELSE NoResult,
                    overlap |-> FALSE, found |-> daemon[p].status]]
    /\ UNCHANGED containers
    /\ DockerFrame

\* GET /preview/status/{project_id}: get_preview_status on the fresh
\* service; `tracked` is the `running` field of the answer.
PreviewStatus(c, p) ==
    /\ Callable(c)
    /\ callers' = [callers EXCEPT ![c] =
           [op |-> "status", project |-> p, pc |-> "done",
            result |-> "returned", url |-> 0,
            tracked |-> GetPreviewStatus(FreshService, p),
            outcome |-> NoResult, overlap |-> FALSE,
            found |-> daemon[p].status]]
    /\ UNCHANGED <<containers, daemon>>
    /\ DockerFrame

\* POST /preview/stop-all: stop_all_previews on the fresh service.
PreviewStopAll(c) ==
    /\ Callable(c)
    /\ \E outcomes \in [Projects -> {"ok", "not_found", "error"}] :
        /\ \A p \in Projects : outcomes[p] \in StopOutcomes(daemon[p])
        /\ LET st == StopAllEffect([containers |-> FreshService,
                                    daemon |-> daemon],
                                   DOMAIN FreshService, outcomes)
           IN  daemon' = st.daemon
    /\ callers' = [callers EXCEPT ![c] =
           [op |-> "stop_all", project |-> 0, pc |-> "done",
            result |-> "returned", url |-> 0,
            tracked |-> DOMAIN FreshService # {}, outcome |-> NoResult,
            overlap |-> FALSE, found |-> NoResult]]
    /\ UNCHANGED containers
    /\ DockerFrame

PreviewInit ==
    /\ max_iterations = 1
    /\ AgentIdle
    /\ WebhookIdle
    /\ ExecutorIdle
    /\ ParserIdle
    /\ ChatIdle
    /\ DockerIdle

PreviewNext ==
    \/ \E c \in Calls, p \in Projects : PreviewStartUnavailable(c, p)
    \/ \E c \in Calls, p \in Projects : PreviewStartReuse(c, p)
    \/ \E c \in Calls, p \in Projects : PreviewStartLookup(c, p)
    \/ \E c \in Calls : PreviewStartRun(c)
    \/ \E c \in Calls : PreviewStartRunRaises(c)
    \/ \E c \in Calls, p \in Projects : PreviewStop(c, p)
    \/ \E c \in Calls, p \in Projects : PreviewStatus(c, p)
    \/ \E c \in Calls : PreviewStopAll(c)

PreviewSpec == PreviewInit /\ [][PreviewNext]_vars

\* ------------------------------- the LLM calls of one run: what the model gets
\* The text _get_system_prompt returns, fixed when LLMService is built.
SystemPrompt == <<"agent_system_prompt">>

\* Contexts a run builds, as sequences of the sections they hold, and
\* prompts, as sequences of characters.
Contexts ==
    { <<>>,
      <<"already_read">>,
      <<"already_read", "file_contents", "execution_log">>,
      <<"already_read", "warning", "file_contents", "execution_log">>,
      <<"error">>,
      <<"already_read", "file_contents", "execution_log", "error">> }

Prompts == { <<"a">>, <<" ", "a">>, <<"a", ".", " ">> }

ForcingNotice == "forcing_notice"

ChatMessage(role, content) == [role |-> role, content |-> content]

\* Agent._build_messages
BuildMessages(prompt, context) ==
    << ChatMessage("system", context), ChatMessage("user", Strip(prompt)) >>

\* The loop of generate_completion over the messages: the last user
\* message, and the messages that are neither system nor user.
RECURSIVE UserMessage(_, _)
UserMessage(messages, found) ==
    IF messages = <<>> THEN found
    ELSE UserMessage(Tail(messages),
                     IF Head(messages).role = "user"
                     THEN Head(messages).content ELSE found)

Conversation(messages) ==
    SelectSeq(messages, LAMBDA m : m.role \notin {"system", "user"})

\* What self.agent.run is called with; the agent was built with the
\* system prompt of the service.
ModelInput(messages) ==
    [system_prompt |-> SystemPrompt,
     user_prompt |-> UserMessage(messages, <<>>),
     message_history |-> Conversation(messages)]

CompletionFrame ==
    UNCHANGED <<agentVars, webhookVars, executorVars, chatVars, dockerVars,
                ps_pc, reply, parsed>>

\* The prompt of the run: any prompt for the first call, the same one later.
PromptOfRun == IF requests = <<>> THEN Prompts ELSE {requests[1].prompt}

\* An iteration of the workflow calls generate_completion with the
\* messages built from the prompt and the current context.
IterationCompletion ==
    /\ llm_pc = "running"
    /\ Len(requests) < MaxCalls
    /\ \E prompt \in PromptOfRun, context \in Contexts :
        requests' = Append(requests,
            [context |-> context, prompt |-> prompt,
             input |-> ModelInput(BuildMessages(prompt, context))])
    /\ UNCHANGED llm_pc
    /\ CompletionFrame

\* _force_execution_mode calls generate_completion with the context
\* extended by the system notice; it is the last call of the run.
ForcedCompletion ==
    /\ llm_pc = "running"
    /\ Len(requests) < MaxCalls
    /\ \E prompt \in PromptOfRun, context \in Contexts :
        requests' = Append(requests,
            [context |-> Append(context, ForcingNotice), prompt |-> prompt,
             input |-> ModelInput(BuildMessages(prompt,
                                                Append(context, ForcingNotice)))])
    /\ llm_pc' = "done"
    /\ CompletionFrame

\* The run ends without a further call.
CompletionsEnd ==
    /\ llm_pc = "running"
    /\ llm_pc' = "done"
    /\ UNCHANGED requests
    /\ CompletionFrame

CompletionInit ==
    /\ max_iterations = 1
    /\ AgentIdle
    /\ WebhookIdle
    /\ ExecutorIdle
    /\ ChatIdle
    /\ DockerIdle
    /\ ps_pc = "idle"
    /\ reply = NoResult
    /\ parsed = NoResult
    /\ llm_pc = "running"
    /\ requests = <<>>

CompletionNext ==
    \/ IterationCompletion
    \/ ForcedCompletion
    \/ CompletionsEnd

CompletionSpec == CompletionInit /\ [][CompletionNext]_vars

\* ------------------------------------------- chat_stream: one request
\* A frame is named by what it carries: the type of an update of the
\* agent, the error built by generate_stream, or the end marker.
UpdateTypes == {"thinking", "read", "error", "completed"}
InternalError == "internal_server_error"
DoneMarker == "[DONE]"

StreamFrame ==
    UNCHANGED <<agentVars, webhookVars, executorVars, parserVars, dockerVars,
                ch_pc, updates>>

\* agent.run yields an update: it is sent as one frame.
StreamUpdate ==
    /\ st_pc = "streaming"
    /\ Len(frames) < MaxUpdates
    /\ \E t \in UpdateTypes : frames' = Append(frames, t)
    /\ UNCHANGED st_pc
    /\ StreamFrame

\* agent.run is exhausted: the try block is left.
StreamAgentEnds ==
    /\ st_pc = "streaming"
    /\ st_pc' = "ending"
    /\ UNCHANGED frames
    /\ StreamFrame

\* Variant of the handler that returns after the error frame.
StreamAgentRaises_NoMarker ==
    /\ st_pc = "streaming"
    /\ frames' = Append(frames, InternalError)
    /\ st_pc' = "finished"
    /\ StreamFrame

\* Agent(...) or agent.run raises: the handler sends the error frame.
StreamAgentRaises ==
    /\ st_pc = "streaming"
    /\ frames' = Append(frames, InternalError)
    /\ st_pc' = "ending"
    /\ StreamFrame

\* The end marker is sent and the generator returns.
StreamDone ==
    /\ st_pc = "ending"
    /\ frames' = Append(frames, DoneMarker)
    /\ st_pc' = "finished"
    /\ StreamFrame

\* The client goes away while the generator is suspended at a yield: the
\* generator is closed there (GeneratorExit is no Exception).
StreamAbandoned ==
    /\ st_pc \in {"streaming", "ending"}
    /\ frames # <<>>
    /\ st_pc' = "abandoned"
    /\ UNCHANGED frames
    /\ StreamFrame

StreamInit ==
    /\ max_iterations = 1
    /\ AgentIdle
    /\ WebhookIdle
    /\ ExecutorIdle
    /\ ParserIdle
    /\ DockerIdle
    /\ ch_pc = "idle"
    /\ updates = 0
    /\ st_pc = "streaming"
    /\ frames = <<>>

StreamNext ==
    \/ StreamUpdate
    \/ StreamAgentEnds
    \/ StreamAgentRaises
    \/ StreamDone
    \/ StreamAbandoned

StreamSpec == StreamInit /\ [][StreamNext]_vars

TypeOK ==
    /\ pc \in {"start", "loop", "llm", "read", "read_run", "force", "exec",
              "exec_run", "hook", "done"}
    /\ iteration_count \in 0..max_iterations
    /\ read_files \subseteq {P1, P2}

\* ------------------------------------------------- vocabulary of the claims
Last(s) == s[Len(s)]

\* <<type, status>> of every event, in order.
EventKinds == [i \in 1..Len(events) |-> <<events[i].type, events[i].status>>]

\* The run has entered _execute_actions.
BatchReached == batch_idx >= 1

\* Positions of the events emitted since _execute_actions was entered.
BatchPositions == IF BatchReached THEN (batch_start + 1)..Len(events) ELSE {}

BatchErrors == {i \in BatchPositions : events[i].type = "error"}

\* Actions of the batch reported as executed with success.
BatchSuccesses ==
    {i \in BatchPositions : events[i].status = "completed" /\ events[i].message = "action"}

FatalErrors == {i \in 1..Len(events) : events[i].error_type = "processing"}

\* Number of iterations that ended in the handler of the iteration.
IterationFailures == Len(SelectSeq(current_context, LAMBDA x : x = "error"))

\* Every LLM call made so far raised.
AllCallsRaised == llm_calls = IterationFailures

\* Positions of the updates that answer a reply with thinking = False.
ReadyReplies == {i \in 1..Len(events) : events[i].message = "ready"}

\* Updates that announce an action or a read, and updates that report one.
IsAnnouncement(e) == e.message = "action" /\ e.status = "pending"

IsReport(e) ==
    \/ e.message \in {"failed", "read_ok", "read_error"}
    \/ e.message = "action" /\ e.status = "completed"

\* ------------------------------------------------------------------ claims

\* C1 (as stated): when the run is over, the last event is of type completed
\* or error and no earlier event is of type completed or error.
C1_OneTerminalMarker ==
    pc = "done" =>
        /\ events # <<>>
        /\ Last(events).type \in {"completed", "error"}
        /\ \A i \in 1..(Len(events) - 1) : events[i].type \notin {"completed", "error"}

\* C1 (amended): when the run is over, the last event is of type completed or
\* error, no earlier event is of type completed, and every earlier event of
\* type error reports a failed read of thinking mode.
C1_TerminalMarkerLast ==
    pc = "done" =>
        /\ events # <<>>
        /\ Last(events).type \in {"completed", "error"}
        /\ Last(events).message # "read_error"
        /\ \A i \in 1..(Len(events) - 1) :
              /\ events[i].type # "completed"
              /\ events[i].type = "error" => events[i].message = "read_error"

C1_Witness ==
    /\ pc = "done"
    /\ \E i \in 1..(Len(events) - 1) : events[i].type = "error"
    /\ Last(events).type = "completed"

\* C2: every step of a run lowers a natural-number measure, so a run is
\* finite; the loop body is entered at most max_iterations times and the
\* event stream stays within a bound fixed by max_iterations.
Rank ==
    CASE pc = "start" -> 30 * max_iterations + 40
      [] pc = "loop"  -> 30 * (max_iterations - iteration_count) + 9
      [] pc = "llm"   -> 30 * (max_iterations - iteration_count) + 20
      [] pc = "force" -> 30 * (max_iterations - iteration_count) + 15
      [] pc = "read"  -> 30 * (max_iterations - iteration_count) + 10 + 2 * Len(pending_reads)
      [] pc = "read_run" -> 30 * (max_iterations - iteration_count) + 9 + 2 * Len(pending_reads)
      [] pc = "exec"  -> 2 + 2 * (Len(batch) + 1 - batch_idx)
      [] pc = "exec_run" -> 1 + 2 * (Len(batch) + 1 - batch_idx)
      [] pc = "hook"  -> 1
      [] pc = "done"  -> 0

LongestBatch ==
    CHOOSE n \in 0..10 : /\ \E b \in Batches : Len(b) = n
                         /\ \A b \in Batches : Len(b) <= n

\* One event when the run starts; per iteration the thinking event, the
\* forcing (or ready) event and two events per read; two events per action
\* of the batch and the completion message.
EventBound == 1 + max_iterations * (2 + 2 * LongestBatch) + 2 * LongestBatch + 1

C2_Terminates ==
    /\ [](Rank \in Nat /\ entered <= max_iterations /\ Len(events) <= EventBound)
    /\ [][Rank' < Rank]_vars

C2_Witness ==
    /\ pc = "done"
    /\ entered = max_iterations
    /\ max_iterations >= 3

\* C3: the number of LLM completion calls never exceeds max_iterations.
C3_LLMCallsBounded == llm_calls <= max_iterations

\* C4 (as stated): a finished run with max_iterations = 2 whose replies all
\* parsed with thinking = True has exactly one error event, of kind
\* processing, and made at most 2 LLM calls.
C4_EndsWithMaxIterationsError ==
    (pc = "done" /\ max_iterations = 2 /\ all_thinking) =>
        /\ Cardinality(FatalErrors) = 1
        /\ Cardinality({i \in 1..Len(events) : events[i].type = "error"}) = 1
        /\ llm_calls <= 2

\* C4 (amended): a finished run with max_iterations = 2 whose replies all
\* parsed with thinking = True was forced into execution at iteration 1, made
\* exactly 2 LLM calls, has no processing error event and sent the completion
\* webhook.
C4_ForcedAtFirstIteration ==
    (pc = "done" /\ max_iterations = 2 /\ all_thinking) =>
        /\ forced_at = 1
        /\ llm_calls = 2
        /\ FatalErrors = {}
        /\ BatchReached
        /\ Len(completion_hooks) = 1

C4_Witness ==
    /\ pc = "done"
    /\ max_iterations = 2
    /\ all_thinking

\* C5 (as stated): with thinking replies only and no duplicate read, forced
\* execution first triggers at iteration ceil(0.8 * max_iterations).
C5_ForcedAtCeiling ==
    (all_thinking /\ dup_total = 0 /\ forced_at # 0) =>
        forced_at = (max_iterations * 8 + 9) \div 10

\* C5 (amended): with thinking replies only and no duplicate read, forced
\* execution first triggers at iteration max(1, floor(0.8 * max_iterations)):
\* not before, and every run that gets a reply at that iteration is forced.
C5_ForcedAtFloor ==
    LET first == Max2(1, (max_iterations * 8) \div 10)
    IN  (all_thinking /\ dup_total = 0) =>
            /\ forced_at # 0 => forced_at = first
            /\ (iteration_count >= first /\ pc # "llm") => forced_at = first

C5_Witness ==
    /\ all_thinking
    /\ dup_total = 0
    /\ max_iterations = 4
    /\ forced_at = 3

\* C6 (as stated): with thinking replies that only ask again for the path
\* already read, execution is forced once three duplicate requests have been
\* made, counted over all replies.
C6_ForcedByThirdDuplicateAcrossReplies ==
    (only_p1 /\ dup_total >= DuplicateReadLimit) => forced_at # 0

\* C6 (amended): execution is forced by the first reply that itself carries
\* three duplicate read requests; in a run of thinking replies that only ask
\* for the same path, fewer duplicates per reply force execution only through
\* the iteration threshold.
C6_ForcedByThreeDuplicatesInOneReply ==
    /\ max_dups >= DuplicateReadLimit => forced_at # 0
    /\ (only_p1 /\ forced_at # 0 /\ max_dups < DuplicateReadLimit) =>
          forced_at >= (max_iterations * 8) \div 10

C6_Witness ==
    /\ only_p1
    /\ max_dups = DuplicateReadLimit
    /\ forced_at # 0
    /\ forced_at < (max_iterations * 8) \div 10

\* C7: once an action of the batch has failed, its error event is the only
\* error event of the batch and the last event of the stream, it names the
\* path of the last action handed to the executor, the actions handed to the
\* executor are the batch up to the failed one, and no completed-type event
\* exists.
C7_FirstFailureAbortsBatch ==
    BatchErrors # {} =>
        /\ pc \in {"hook", "done"}
        /\ BatchErrors = {Len(events)}
        /\ attempted # <<>>
        /\ Len(attempted) <= Len(batch)
        /\ attempted = SubSeq(batch, 1, Len(attempted))
        /\ Last(events).file_path = Last(attempted).file_path
        /\ \A i \in 1..Len(events) : events[i].type # "completed"

C7_Witness ==
    /\ pc = "done"
    /\ batch = <<CreateP2, EditP1>>
    /\ attempted = <<CreateP2>>
    /\ BatchErrors # {}

\* C8: a completion webhook with success = true is sent only after a batch
\* whose every action succeeded, that is, after the completed-type event.
C8_SuccessOnlyAfterFullBatch ==
    \A i \in 1..Len(completion_hooks) :
        completion_hooks[i].success =>
            /\ BatchErrors = {}
            /\ Last(events).type = "completed"

\* C9 (as stated): the run whose first reply asks to read
\* components/ui/button.tsx and whose second reply creates
\* components/Button.tsx, the create succeeding, emits exactly five events.
C9_FiveEvents ==
    (pc = "done" /\ scenario = "s2" /\ total_actions = 1) =>
        EventKinds = << <<"thinking", "pending">>, <<"thinking", "completed">>,
                        <<"create", "pending">>, <<"create", "completed">>,
                        <<"completed", "completed">> >>

\* C9 (amended): that run emits the opening thinking/pending event of
\* Agent.run and one thinking/pending event per iteration as well, and the
\* read of the first reply is reported; when max_iterations <= 2 the first
\* reply forces execution instead and the second reply is the forced one.
C9_FullEventSequence ==
    (pc = "done" /\ scenario = "s2" /\ total_actions = 1) =>
        IF max_iterations >= 3
        THEN \E r \in { <<"read", "completed">>, <<"error", "error">> } :
                EventKinds = << <<"thinking", "pending">>, <<"thinking", "pending">>,
                                <<"read", "pending">>, r,
                                <<"thinking", "pending">>, <<"thinking", "completed">>,
                                <<"create", "pending">>, <<"create", "completed">>,
                                <<"completed", "completed">> >>
        ELSE EventKinds = << <<"thinking", "pending">>, <<"thinking", "pending">>,
                             <<"thinking", "pending">>,
                             <<"create", "pending">>, <<"create", "completed">>,
                             <<"completed", "completed">> >>

C9_Witness ==
    /\ pc = "done"
    /\ scenario = "s2"
    /\ total_actions = 1
    /\ max_iterations >= 3
    /\ Len(events) = 9

\* C10: at most one completion webhook is sent; a finished run has sent it
\* exactly if it entered an execution batch; none is sent on the
\* max-iterations path; its totalActions is the number of actions of the
\* batch that were executed with success.
C10_OneCompletionWebhook ==
    /\ Len(completion_hooks) <= 1
    /\ completion_hooks # <<>> => BatchReached
    /\ pc = "done" => (completion_hooks # <<>> <=> BatchReached)
    /\ FatalErrors # {} => completion_hooks = <<>>
    /\ \A i \in 1..Len(completion_hooks) :
          completion_hooks[i].totalActions = Cardinality(BatchSuccesses)

C10_Witness ==
    /\ pc = "done"
    /\ Len(completion_hooks) = 1
    /\ completion_hooks[1].totalActions = 1
    /\ batch = <<CreateP2, EditP1>>
    /\ BatchErrors # {}

\* C11 (as stated): a finished run in which an iteration failed and a later
\* reply parsed with thinking = False ends with the completed-type event.
C11_RecoveredRunCompletes ==
    (pc = "done" /\ IterationFailures > 0 /\ ReadyReplies # {}) =>
        Last(events).type = "completed"

\* C11 (amended): the step in which an iteration fails emits no event and
\* leaves the run in the loop with the same iteration count; while
\* iterations remain the next iteration can be entered; a finished run in
\* which an iteration failed and a later reply parsed with thinking = False
\* has entered the execution batch right after that reply, and it ends with
\* the completed-type event when no action of the batch failed and with the
\* failed action's error event otherwise.
C11_FailedIterationContinues ==
    /\ [][IterationFailures' > IterationFailures =>
             /\ pc' = "loop"
             /\ events' = events
             /\ iteration_count' = iteration_count]_vars
    /\ []((IterationFailures > 0 /\ pc = "loop" /\ iteration_count < max_iterations)
             => ENABLED LoopEnter)
    /\ []((pc = "done" /\ IterationFailures > 0 /\ ReadyReplies # {}) =>
             /\ BatchReached
             /\ ReadyReplies = {batch_start}
             /\ BatchErrors = {} => Last(events).type = "completed"
             /\ BatchErrors # {} => BatchErrors = {Len(events)})

C11_Witness ==
    /\ pc = "done"
    /\ IterationFailures >= 2
    /\ ReadyReplies # {}
    /\ total_actions = 2
    /\ Last(events).type = "completed"

\* C12: a finished run whose every LLM call raised made exactly
\* max_iterations calls, ends with an error event whose error_type is
\* processing, has no other error event and no completed-type event, and sent
\* no completion webhook.
C12_AllCallsRaiseEndsProcessing ==
    (pc = "done" /\ AllCallsRaised) =>
        /\ llm_calls = max_iterations
        /\ Last(events).type = "error"
        /\ Last(events).error_type = "processing"
        /\ {i \in 1..Len(events) : events[i].type = "error"} = {Len(events)}
        /\ \A i \in 1..Len(events) : events[i].type # "completed"
        /\ ~BatchReached
        /\ completion_hooks = <<>>

C12_Witness ==
    /\ pc = "done"
    /\ AllCallsRaised
    /\ llm_calls = 3

\* C13 (as stated): a finished run ends with a type-error event only through
\* the exhaustion of the iteration budget; a finished run that reached an
\* execution batch does not end with a type-error event.
C13_OnlyBudgetExhaustionEndsWithError ==
    pc = "done" =>
        /\ Last(events).type = "error" => Last(events).error_type = "processing"
        /\ BatchReached => Last(events).type # "error"

\* C13 (amended): a finished run ends with a type-error event in two cases.
\* A run that reached no execution batch used up its iterations and ends
\* with the error event of kind processing.  A run that reached an execution
\* batch ends with a type-error event exactly if an action of the batch
\* failed; that event reports the failed action and carries no error_type.
C13_ErrorEndings ==
    pc = "done" =>
        /\ ~BatchReached =>
              /\ Last(events).type = "error"
              /\ Last(events).error_type = "processing"
              /\ iteration_count = max_iterations
        /\ BatchReached =>
              /\ Last(events).type = "error" <=> BatchErrors # {}
              /\ Last(events).type = "error" => Last(events).message = "failed"
              /\ Last(events).error_type = NoErrorType
              /\ Last(events).type \in {"error", "completed"}

C13_Witness ==
    /\ pc = "done"
    /\ BatchReached
    /\ Last(events).type = "error"
    /\ iteration_count < max_iterations

\* C14: while an announced action of the batch is about to be executed, the
\* last event is its pending event and the executor has not been handed it
\* yet; while an announced read is about to be made, the last event is its
\* pending event and nothing is gathered for its path yet; every pending
\* event of an action or a read is directly followed by one completed or
\* error event for the same path (unless the step is still under way), every
\* such report directly follows its pending event, and every action handed
\* to the executor has been reported.
C14_PendingThenResult ==
    /\ pc = "exec_run" =>
          /\ Last(events) = Event(MapActionToUpdateType(batch[batch_idx].action),
                                  batch[batch_idx].file_path, "action", "pending",
                                  NoErrorType)
          /\ Len(attempted) = batch_idx - 1
    /\ pc = "read_run" =>
          /\ Last(events) = Event("read", Head(pending_reads).file_path, "action",
                                  "pending", NoErrorType)
          /\ Head(pending_reads).file_path \notin DOMAIN gathered_context
    /\ \A i \in 1..Len(events) :
          IsAnnouncement(events[i]) =>
              IF i = Len(events) THEN pc \in {"exec_run", "read_run"}
              ELSE /\ IsReport(events[i + 1])
                   /\ events[i + 1].status \in {"completed", "error"}
                   /\ events[i + 1].file_path = events[i].file_path
    /\ \A i \in 1..Len(events) :
          IsReport(events[i]) =>
              /\ i > 1
              /\ IsAnnouncement(events[i - 1])
              /\ events[i - 1].file_path = events[i].file_path
    /\ Len(attempted) = Cardinality({i \in BatchPositions : IsReport(events[i])})

C14_Witness ==
    /\ pc = "done"
    /\ \E i \in 1..Len(events) : events[i].message = "read_error"
    /\ \E i \in 1..Len(events) : events[i].message = "read_ok"
    /\ Len(attempted) = 2
    /\ BatchErrors # {}

\* C15: one notification makes at most retry_attempts POSTs and none after
\* the first that succeeds; the k-th wait lasts retry_delay * 2^(k-1), so
\* the waits grow strictly; a wait only ever separates two attempts, so none
\* follows the last attempt; the call that fails twice and succeeds on the
\* third attempt returns True after exactly 3 POSTs and the waits 1, 2.
C15_RetryWithBackoff ==
    /\ Len(sends) <= RetryAttempts
    /\ \A i \in 1..(Len(sends) - 1) : sends[i] # "200_json"
    /\ wh_result = "True" <=> (sends # <<>> /\ Last(sends) = "200_json")
    /\ \A k \in 1..Len(delays) : delays[k] = RetryDelay * (2 ^ (k - 1))
    /\ \A k \in 1..(Len(delays) - 1) : delays[k] < delays[k + 1]
    /\ Len(delays) <= RetryAttempts - 1
    /\ wh_pc \in {"returned", "idle"} /\ sends # <<>> => Len(delays) = Len(sends) - 1
    /\ (wh_pc = "returned" /\ Len(sends) = 3 /\ sends[3] = "200_json") =>
          /\ wh_result = "True"
          /\ delays = <<1, 2>>

C15_Witness ==
    /\ wh_pc = "returned"
    /\ wh_result = "True"
    /\ sends = <<"non_200", "exception", "200_json">>
    /\ delays = <<1, 2>>

\* C16 (as stated): the call always ends with the result True or False, and a
\* call that returned False has made all retry_attempts POSTs.
C16_FalseOnlyAfterAllAttempts ==
    /\ wh_pc = "returned" => wh_result \in {"True", "False"}
    /\ (wh_pc = "returned" /\ wh_result = "False") => Len(sends) = RetryAttempts

\* C16 (amended): the call always ends with the result True or False; a call
\* on a service that has a session returns False only after all
\* retry_attempts POSTs, each of which failed; a call on a service without a
\* session returns False at once, without any POST and without a wait.
C16_FalseAfterAllAttemptsOrNoSession ==
    /\ wh_pc = "returned" => wh_result \in {"True", "False"}
    /\ (wh_pc = "returned" /\ wh_result = "False" /\ session # "none") =>
          /\ Len(sends) = RetryAttempts
          /\ \A i \in 1..Len(sends) : sends[i] # "200_json"
    /\ (wh_pc = "returned" /\ session = "none") =>
          /\ wh_result = "False"
          /\ sends = <<>>
          /\ delays = <<>>

C16_Witness ==
    /\ wh_pc = "returned"
    /\ wh_result = "False"
    /\ session = "closed"
    /\ Len(sends) = RetryAttempts

\* C17: whatever happens to the webhook notifications of the actions, an
\* execution batch is left early only by an action whose execution failed,
\* and a finished run whose batch saw no failed execution has handed every
\* action of the batch to the executor and ends with the completed-type
\* event.
C17_WebhookFailureLeavesRunUnchanged ==
    /\ \A i \in BatchErrors : events[i].message = "failed"
    /\ (pc = "done" /\ BatchReached
          /\ \A i \in BatchPositions : events[i].message # "failed") =>
              /\ attempted = batch
              /\ Last(events).type = "completed"

\* C18: execute_action always ends with the result True or False; the
\* result is False, and no tool is called, when no tool is registered for
\* the kind; it is False when the called tool reports success False, reports
\* no success, or raises; it is True exactly when the tool was called and
\* reported success True.
C18_ExecuteActionReturnsBoolean ==
    ex_pc = "returned" =>
        /\ ex_result \in {"True", "False"}
        /\ Len(tool_calls) <= 1
        /\ ex_action.action \notin ToolRegistry =>
              (ex_result = "False" /\ tool_calls = <<>>)
        /\ ex_tool \in {"success_false", "no_success_key", "raises"} =>
              ex_result = "False"
        /\ ex_result = "True" <=> (Len(tool_calls) = 1 /\ ex_tool = "success_true")

C18_Witness ==
    /\ ex_pc = "returned"
    /\ ex_tool = "raises"
    /\ Len(tool_calls) = 1
    /\ ex_result = "False"

\* C19: for an EditFile or CreateFile action the tool is called exactly if
\* the action carries content, the empty string included, and then with the
\* resolved path and that content; without content the result is False.
C19_ToolCalledIffContentPresent ==
    (ex_pc = "returned" /\ ex_action.action \in {"editFile", "createFile"}) =>
        IF ex_action.content = NoContent
        THEN tool_calls = <<>> /\ ex_result = "False"
        ELSE tool_calls = << <<GetFullPath(NormalizePath(ex_action.file_path)),
                               ex_action.content>> >>

\* C20: for every kind but Search, the path handed to the tool names a
\* directory entry inside the project directory.
C20_ToolPathInsideProject ==
    (ex_pc = "returned" /\ ex_action.action # "search" /\ tool_calls # <<>>) =>
        InsideProject(tool_calls[1][1])

\* C21: the file path of the normalized action does not start with "/",
\* does not start with "./" and has no leading or trailing whitespace.
C21_NormalizedPathIsClean ==
    ex_pc = "returned" =>
        LET fp == ex_normalized.file_path
        IN  /\ ~StartsWith(fp, <<"/">>)
            /\ ~StartsWith(fp, <<".", "/">>)
            /\ fp = <<>> \/ (fp[1] # " " /\ fp[Len(fp)] # " ")

\* C22: normalizing the normalized action gives the normalized action.
C22_NormalizeIdempotent ==
    ex_pc = "returned" => NormalizeAction(ex_normalized) = ex_normalized

\* C24: no step of a run removes a path from read_files.
C24_ReadFilesOnlyGrows == [][read_files \subseteq read_files']_vars

C24_Witness ==
    /\ read_files = {P1, P2}
    /\ iteration_count >= 2
    /\ pc = "done"

C23_ParseKeepsValidEntries ==
    (ps_pc = "returned" /\ ~reply.wrapped /\ reply.top # "not_json") =>
        /\ ~parsed.raised
        /\ parsed.actions = ValidActions(reply.entries)

\* C26: chat_simple never holds more than 1000 collected updates.
C26_AtMostLimit == updates <= SafetyLimit

\* C27: stop_preview of a tracked project removes it from `containers`
\* whatever Docker does (stop and remove succeed, not found, other error)
\* and leaves the other projects alone; on an untracked project it changes
\* neither `containers` nor the daemon; it never raises; after
\* stop_all_previews no project is tracked.
C27_StopAlwaysUntracks ==
    [][\A c \in Calls :
        /\ (callers'[c] # callers[c] /\ callers'[c].op = "stop"
                /\ callers'[c].pc = "done") =>
              LET p == callers'[c].project
              IN  /\ callers'[c].result = "returned"
                  /\ p \notin DOMAIN containers'
                  /\ containers' = Untrack(containers, p)
                  /\ p \notin DOMAIN containers =>
                        /\ containers' = containers
                        /\ daemon' = daemon
        /\ (callers'[c] # callers[c] /\ callers'[c].op = "stop_all"
                /\ callers'[c].pc = "done") =>
              /\ callers'[c].result = "returned"
              /\ DOMAIN containers' = {}]_vars

\* A stop_preview of a tracked project during which Docker raised an error
\* other than NotFound has returned, and the project is not tracked.
C27_Witness ==
    \E c \in Calls :
        /\ callers[c].op = "stop"
        /\ callers[c].pc = "done"
        /\ callers[c].tracked
        /\ callers[c].outcome = "error"
        /\ callers[c].project \notin DOMAIN containers

\* The control points from which a run goes to its end without a further
\* iteration.
FinalPath == {"force", "exec", "exec_run", "hook", "done"}

\* C28 (as stated): once a thinking reply has carried three duplicate read
\* requests the run is in forced execution and ends after the forced batch:
\* control never comes back to the loop.
C28_ForcedRunEndsAfterForcedBatch ==
    max_dups >= DuplicateReadLimit => pc \in FinalPath

\* C28 (amended): a thinking reply with three duplicate read requests
\* takes the loop to forced execution in that iteration, with the forcing
\* event and none of its reads executed; one more LLM call follows in the
\* same iteration; when that call gives a reply its actions are the final
\* batch and the run ends with no further LLM call, and when it raises the
\* error is added to the context and the loop goes on.
C28_ForcedInSameIteration ==
    /\ [](reply_dups >= DuplicateReadLimit => pc \in FinalPath \cup {"loop"})
    /\ [][/\ (pc = "llm" /\ reply_dups' >= DuplicateReadLimit) =>
               /\ pc' = "force"
               /\ events' = Append(events,
                      Event("thinking", "", "forcing", "pending", NoErrorType))
               /\ llm_calls' = llm_calls + 1
               /\ UNCHANGED <<read_files, gathered_context, execution_log,
                              pending_reads, iteration_count, current_context>>
          /\ (pc = "force" /\ reply_dups >= DuplicateReadLimit) =>
               /\ llm_calls' = llm_calls + 1
               /\ UNCHANGED <<iteration_count, read_files, events>>
               /\ \/ pc' = "exec" /\ batch_idx' = 1 /\ batch_start' = Len(events)
                  \/ /\ pc' = "loop"
                     /\ current_context' = current_context \o <<"error">>
          /\ (pc \in {"exec", "exec_run", "hook"}
                 /\ reply_dups >= DuplicateReadLimit) =>
               /\ pc' \in {"exec", "exec_run", "hook", "done"}
               /\ UNCHANGED <<llm_calls, iteration_count, batch, read_files>>
         ]_vars

\* A run forced by three duplicate reads in one reply, below the iteration
\* threshold, has executed an action of the forced batch and ended.
C28_Witness ==
    /\ pc = "done"
    /\ reply_dups >= DuplicateReadLimit
    /\ iteration_count < (max_iterations * 8) \div 10
    /\ attempted # <<>>
    /\ llm_calls = iteration_count + 1

\* The run is in, or past, a batch that came from the forced call: the last
\* event before the batch is the forcing event.
ForcedBatch ==
    /\ BatchReached
    /\ batch_start >= 1
    /\ events[batch_start].message = "forcing"

\* C29: the forced call's reply starts the final batch whatever its
\* thinking flag and however many actions it has; from then on the run
\* makes no LLM call and enters no iteration, the actions handed to the
\* executor are the batch in order (all of it when none fails), and the run
\* ends with one completion webhook and no fatal error.
C29_ForcedBatchIsFinal ==
    /\ [](ForcedBatch =>
            /\ pc \in {"exec", "exec_run", "hook", "done"}
            /\ Len(attempted) <= Len(batch)
            /\ attempted = SubSeq(batch, 1, Len(attempted))
            /\ pc = "done" =>
                  /\ Len(completion_hooks) = 1
                  /\ FatalErrors = {}
                  /\ BatchErrors = {} => attempted = batch)
    /\ [][/\ pc = "force" =>
               \/ /\ pc' = "exec"
                  /\ ForcedBatch'
                  /\ attempted' = <<>>
               \/ /\ pc' = "loop"
                  /\ current_context' = current_context \o <<"error">>
          /\ ForcedBatch =>
               UNCHANGED <<batch, batch_start, iteration_count, llm_calls, entered>>
         ]_vars

\* A run whose replies all had thinking = True, the forced one included,
\* and whose forced reply had no action, has ended with the completion
\* webhook.
C29_Witness ==
    /\ pc = "done"
    /\ ForcedBatch
    /\ all_thinking
    /\ batch = <<>>
    /\ Len(completion_hooks) = 1

\* Positions of the announcements of the reads of path p made in thinking
\* mode, and the reads of p handed to the executor in the batch.
ThinkingReads(p) ==
    {i \in 1..(IF BatchReached THEN batch_start ELSE Len(events)) :
        /\ events[i].type = "read"
        /\ events[i].status = "pending"
        /\ events[i].file_path = p}

BatchReads(p) ==
    {i \in 1..Len(attempted) :
        attempted[i].action = "readFile" /\ attempted[i].file_path = p}

\* C30 (as stated): no path is read more than once in a run.
C30_NoPathReadTwice ==
    \A p \in {P1, P2} :
        Cardinality(ThinkingReads(p)) + Cardinality(BatchReads(p)) <= 1

\* C30 (amended): in thinking mode the step that meets a read whose path
\* is in read_files emits no event and leaves read_files, gathered_context,
\* execution_log and the action count unchanged, it only moves to the next
\* read; so in thinking mode a path is read at most once in a run, and a
\* path read there is in read_files.
C30_SkipInThinkingMode ==
    /\ [](\A p \in {P1, P2} :
            /\ Cardinality(ThinkingReads(p)) <= 1
            /\ ThinkingReads(p) # {} => p \in read_files)
    /\ [][(/\ pc = "read"
           /\ pending_reads # <<>>
           /\ Head(pending_reads).file_path \in read_files) =>
              /\ UNCHANGED <<read_files, gathered_context, execution_log,
                             events, total_actions, llm_calls, iteration_count>>
              /\ pending_reads' = Tail(pending_reads)
         ]_vars

\* A thinking reply that asked again for a path read before, without being
\* forced, has been handled: the path was announced once.
C30_Witness ==
    /\ pc = "loop"
    /\ reply_dups \in {1, 2}
    /\ forced_at = 0
    /\ pending_reads = <<>>
    /\ Cardinality(ThinkingReads(P1)) = 1

\* C31: before the run enters an execution batch no action has been handed
\* to the executor, no action webhook sent and no action counted; the only
\* updates are thinking, read and read-error updates, and the actions
\* waiting in _execute_read_actions are readFile actions, whatever else
\* the thinking reply carried.
C31_OnlyReadsBeforeBatch ==
    /\ ~BatchReached =>
          /\ attempted = <<>>
          /\ action_hooks = <<>>
          /\ total_actions = 0
          /\ completion_hooks = <<>>
          /\ \A i \in 1..Len(events) : events[i].type \in {"thinking", "read", "error"}
          /\ DOMAIN gathered_context \subseteq read_files
    /\ \A i \in 1..Len(pending_reads) : pending_reads[i].action = "readFile"

\* The first reply had thinking = True and was <<CreateP2, ReadP1>> (the
\* only list with a read of P1 alone that is not made of reads of P1 only):
\* its read has been done, its create has not.
C31_Witness ==
    /\ pc = "loop"
    /\ iteration_count = 1
    /\ all_thinking
    /\ ~only_p1
    /\ forced_at = 0
    /\ read_files = {P1}
    /\ ~BatchReached
    /\ attempted = <<>>

\* C32: the model's input holds the context of the call as its system part
\* and the prompt as its user part, so two calls with different contexts
\* give the model different inputs.
C32_ModelInputFollowsContext ==
    \A i, j \in 1..Len(requests) :
        /\ requests[i].input.user_prompt = Strip(requests[i].prompt)
        /\ requests[i].context # requests[j].context =>
              requests[i].input # requests[j].input

\* C37: no POST of a notification follows one the receiver answered with
\* status 200, whatever the body of the answer.
C37_NoSendAfter200 ==
    \A i \in 1..Len(sends) :
        sends[i] \in {"200_json", "200_bad_body"} => i = Len(sends)

\* The reply is JSON for json.loads and has no `thinking` member (it may
\* be no object at all).
NoThinkingMember ==
    /\ CleanedIsJSON(reply)
    /\ reply.top # "object" \/ reply.thinking = Absent

\* C33 (as stated): a reply that is valid JSON without a `thinking` member
\* never starts an execution batch.
C33_NoThinkingMemberNeverExecutes ==
    NoThinkingMember => ps_pc \notin {"batch", "forced_batch"}

\* C33 (amended): for such a reply parse_agent_response does not raise and
\* yields thinking = True, so in the loop it never starts the execution
\* batch; as the reply of the forced call its actions are executed all the
\* same, the flag not being read there.
C33_DefaultsToThinking ==
    NoThinkingMember =>
        /\ ps_pc # "called" => (~parsed.raised /\ parsed.thinking)
        /\ ps_pc \notin {"batch", "failed"}
        /\ reply.top # "object" => (ps_pc # "called" => parsed.actions = <<>>)

\* A reply that is JSON but not an object has been taken by the loop as a
\* thinking reply.
C33_Witness ==
    /\ ps_pc = "thinking"
    /\ reply.top = "array"
    /\ parsed.thinking
    /\ parsed.actions = <<>>

\* The read of path p made in thinking mode failed.
ReadFailed(p) ==
    /\ p \in DOMAIN gathered_context
    /\ gathered_context[p] = "Error"

\* C34 (as stated): a path whose read failed in thinking mode is never
\* attempted again in the run.
C34_FailedReadNeverAttemptedAgain ==
    \A p \in {P1, P2} :
        ReadFailed(p) => Cardinality(ThinkingReads(p)) + Cardinality(BatchReads(p)) = 1

\* C34 (amended): the step in which a read of thinking mode fails stores
\* the error text for the path, reports it with one error update that is
\* not fatal, keeps the path in read_files and goes on with the next read
\* of the reply (or back to the loop after the last); the path is not read
\* again in thinking mode.
C34_FailedReadGoesOn ==
    /\ [](\A p \in {P1, P2} :
            ReadFailed(p) =>
                /\ p \in read_files
                /\ Cardinality(ThinkingReads(p)) = 1
                /\ \A i \in 1..Len(events) :
                      events[i].message = "read_error" => events[i].error_type = NoErrorType)
    /\ [][(/\ pc = "read_run"
           /\ Head(pending_reads).file_path \in DOMAIN gathered_context'
           /\ gathered_context'[Head(pending_reads).file_path] = "Error") =>
              /\ events' = Append(events,
                     Event("error", Head(pending_reads).file_path, "read_error",
                           "error", NoErrorType))
              /\ pending_reads' = Tail(pending_reads)
              /\ pc' = IF pending_reads' = <<>> THEN "loop" ELSE "read"
              /\ \A q \in DOMAIN gathered_context :
                    gathered_context'[q] = gathered_context[q]
              /\ UNCHANGED <<read_files, iteration_count, execution_log, llm_calls>>
         ]_vars

\* In the first iteration the read of P1 failed and the read of P2, the
\* next of the same reply, was made.
C34_Witness ==
    /\ iteration_count = 1
    /\ ReadFailed(P1)
    /\ P2 \in DOMAIN gathered_context
    /\ gathered_context[P2] = "content"
    /\ pc = "loop"

\* Positions of the frames that carry x.
FramesOf(x) == {i \in 1..Len(frames) : frames[i] = x}

\* C35: a stream that generate_stream has run to its end holds the end
\* marker once, as its last frame; the marker is never followed by a frame;
\* the error frame of the handler is sent at most once and only the marker
\* follows it; before them come the updates of the agent, in order.
C35_DoneOnceAndLast ==
    /\ st_pc = "finished" =>
          /\ frames # <<>>
          /\ FramesOf(DoneMarker) = {Len(frames)}
    /\ st_pc # "finished" => FramesOf(DoneMarker) = {}
    /\ Cardinality(FramesOf(InternalError)) <= 1
    /\ \A i \in FramesOf(InternalError) :
          /\ i >= Len(frames) - 1
          /\ i = Len(frames) => st_pc \in {"ending", "abandoned"}
    /\ \A i \in 1..Len(frames) :
          frames[i] \in UpdateTypes =>
              \A j \in 1..i : frames[j] \in UpdateTypes

\* The agent raised after two updates, one of them its own error update:
\* the stream is these, the error frame and the marker.
C35_Witness ==
    /\ st_pc = "finished"
    /\ Len(frames) = 4
    /\ frames[2] = "error"
    /\ frames[3] = InternalError
    /\ frames[4] = DoneMarker

\* The iteration by which execution is forced at the latest.
LastThinkingIteration == Max2(1, ForceThreshold(max_iterations))

\* C36: while no LLM call has raised, the run has no fatal error, it is in
\* an execution batch by iteration max(1, floor(0.8 * max_iterations)) at
\* the latest (at that iteration it is waiting for a reply or for the forced
\* reply), and it ends only through a batch and its completion webhook.
C36_ParsingRepliesReachBatch ==
    IterationFailures = 0 =>
        /\ FatalErrors = {}
        /\ iteration_count <= LastThinkingIteration
        /\ (~BatchReached /\ iteration_count = LastThinkingIteration) =>
              pc \in {"llm", "force"}
        /\ pc = "done" => (BatchReached /\ Len(completion_hooks) = 1)

\* With max_iterations = 1 a run whose replies all had thinking = True and
\* parsed has ended through the forced batch.
C36_Witness ==
    /\ max_iterations = 1
    /\ IterationFailures = 0
    /\ all_thinking
    /\ pc = "done"
    /\ BatchReached
    /\ FatalErrors = {}

\* C38 (as stated): two start_preview calls of one service for the same
\* untracked project that were under way together, neither of which met a
\* Docker error other than the name of the container being in use, have
\* both returned, and returned the same url.
C38_ConcurrentStartsAgree ==
    \A c \in Calls : \A d \in Calls \ {c} :
        ( /\ callers[c].op = "start" /\ callers[d].op = "start"
          /\ callers[c].project = callers[d].project
          /\ callers[c].overlap /\ callers[d].overlap
          /\ callers[c].pc = "done" /\ callers[d].pc = "done"
          /\ callers[c].result # "raised" /\ callers[d].result # "raised" ) =>
            /\ callers[c].result = "returned"
            /\ callers[d].result = "returned"
            /\ callers[c].url = callers[d].url

\* C39 (as stated): a status or stop request served while the container a
\* start request made runs knows that container: status answers
\* running = true, and stop finds the project in the dict of its service,
\* which is what makes stop_preview stop and remove the container.
C39_LaterRequestsKnowThePreview ==
    \A c \in Calls :
        ( /\ callers[c].pc = "done"
          /\ callers[c].op \in {"status", "stop"}
          /\ callers[c].found = "running" ) => callers[c].tracked

====
